---- MODULE Spec2Model ----
(***************************************************************************)
(* Tournament prize distribution and wallet balance handling of the chess  *)
(* backend (controllers/tournamentController.js, walletController.js).     *)
(*                                                                         *)
(* The persistent state is the document store: the users' wallet balances, *)
(* the tournament documents, the transaction ledger and the notifications  *)
(* that were requested.  Every HTTP request is a handler in flight: `req`  *)
(* holds its position (pc) and its local variables.  A handler takes one   *)
(* step per database operation it awaits: the step performs the operation  *)
(* and the synchronous code that follows it up to the next await, so that  *)
(* any two handlers interleave exactly at their awaits, as on Node's event *)
(* loop.  Money is counted in whole currency units.                        *)
(***************************************************************************)
EXTENDS Integers, Sequences, FiniteSets, TLC

VARIABLES
    walletBalance,   \* User.walletBalance, per user
    tournaments,     \* Tournament collection: id -> document
    transactions,    \* Transaction collection (the ledger): a set of entries
    notifications,   \* winner notifications requested so far
    req,             \* the handlers in flight: request -> local state
    clock,           \* the current instant, in minutes, and the cron runs of it
    schedule,        \* Tournament: id -> start, duration and lifecycle flags
    timers,          \* pending setTimeout callbacks of the reminders
    reminders,       \* per tournament, the five-minute reminders requested
    notifier,        \* whether createNotification can store and send: up, down
    calc             \* a payout calculation: its inputs and its results

vars == <<walletBalance, tournaments, transactions, notifications, req,
          clock, schedule, timers, reminders, notifier, calc>>

db == <<walletBalance, tournaments, transactions>>

\* the state of the lifecycle: the clock, the schedules, the timers, the
\* reminders; with it, the state of the notification service
life == <<clock, schedule, timers, reminders, notifier>>

(***************************************************************************)
(* Bounds of the model.                                                    *)
(***************************************************************************)
MaxLines == 2         \* entries of one prizeDistribution / results array
MaxTournaments == 2   \* tournament ids in use

\* two handlers in flight: a call and a second call, racing it or following it
Reqs == {1, 2}
TIds == 1..MaxTournaments
Users == {"org", "p1", "p2", "x"}

(***************************************************************************)
(* Helpers on sequences.                                                   *)
(***************************************************************************)
SeqsUpTo(S, n) == UNION {[1..k -> S] : k \in 0..n}

Range(s) == {s[i] : i \in DOMAIN s}

Min(a, b) == IF a < b THEN a ELSE b

RECURSIVE SumAmounts(_)
SumAmounts(s) ==
    IF s = <<>> THEN 0 ELSE s[1].amount + SumAmounts(Tail(s))

\* the payout lines of s that go to user u, in order
RECURSIVE SelectLines(_, _)
SelectLines(s, u) ==
    IF s = <<>> THEN <<>>
    ELSE IF s[1].userId = u THEN <<s[1]>> \o SelectLines(Tail(s), u)
    ELSE SelectLines(Tail(s), u)

\* what a sequence of payout lines adds to user u's balance
CreditFor(u, lines) == SumAmounts(SelectLines(lines, u))

(***************************************************************************)
(* Documents.                                                              *)
(***************************************************************************)
\* the tournament the distribution scenarios run on: created by "org" with
\* wallet funding of its pool (100 + 50), two registered participants
FixedPrizes == [amounts |-> <<100, 50>>, additional |-> <<>>]

RunningTournament(st) ==
    [ organizer        |-> "org",
      status           |-> st,
      participants     |-> <<"p1", "p2">>,
      entryFee         |-> 0,
      prizeType        |-> "fixed",
      prizes           |-> FixedPrizes,
      results          |-> <<>>,
      prizesDistributed |-> FALSE ]

FundingEntry(u, tid, amt, ref) ==
    [ user |-> u, tournament |-> tid, type |-> "tournament_funding",
      amount |-> amt, status |-> "completed", reference |-> ref ]

\* what went wrong while a handler ran: the database operation that threw
\* (0: none)
NoFaults == [db |-> 0]

IdleReq ==
    [ op |-> "none", pc |-> "idle", actor |-> "org", tid |-> 1,
      snap |-> <<>>, lines |-> <<>>, input |-> <<>>, paid |-> 0, bal |-> 0,
      amount |-> 0, response |-> "none", faults |-> NoFaults ]

\* the handler has answered: its locals are gone, its answer is kept
Answered(op, tid, code) ==
    [IdleReq EXCEPT !.op = op, !.tid = tid, !.pc = "done", !.response = code]

Finish(r, code) == [req EXCEPT ![r] = Answered(req[r].op, req[r].tid, code)]

\* the answer of a handler that reports success: who called, the amount it
\* says it took from the caller and the payout lines it says it credited
Success(r, amt, lines) ==
    [req EXCEPT ![r] = [Answered(req[r].op, req[r].tid, "OK") EXCEPT
                            !.actor = req[r].actor, !.amount = amt,
                            !.lines = lines]]

\* requests are numbered in the order in which they arrive
Arrives(r) ==
    /\ req[r].pc = "idle"
    /\ \A q \in Reqs : q < r => req[q].pc # "idle"

(***************************************************************************)
(* distributeTournamentPrizes: POST /api/tournaments/:id/distribute-prizes *)
(***************************************************************************)
PositionLabels == {"1st", "3rd"}

\* parseInt(String(position).replace(/\D/g, ""), 10)
PosNum(position) ==
    CASE position = "1st" -> 1
      [] position = "2nd" -> 2
      [] position = "3rd" -> 3
      [] position = "4th" -> 4
      [] position = "5th" -> 5
      [] position = "6th" -> 6
      [] position = "7th" -> 7
      [] OTHER -> 0

CustomAmounts == {0, 10}

PayoutLineInputs ==
    [userId : {"p1", "p2", "x"}, position : PositionLabels,
     customAmount : CustomAmounts]

\* req.body.prizeDistribution, once it passed the body validation
DistributionInputs == SeqsUpTo(PayoutLineInputs, MaxLines) \ {<<>>}

\* parseFloat(amounts[i - 1]) || 0
AmountAt(amounts, i) == IF i \in DOMAIN amounts THEN amounts[i] ELSE 0

\* additional.find(ap => ap.position === posNum), its amount, else 0
AdditionalFor(additional, posNum) ==
    LET hits == {i \in DOMAIN additional : additional[i].position = posNum}
    IN  IF hits = {} THEN 0
        ELSE additional[CHOOSE i \in hits : \A j \in hits : i <= j].amount

FixedPrizeAmount(prizes, position) ==
    LET arrAmount == AmountAt(prizes.amounts, PosNum(position))
    IN  IF arrAmount > 0 THEN arrAmount
        ELSE AdditionalFor(prizes.additional, PosNum(position))

\* Amounts under the percentage prize type are counted in units of 10^-5 of
\* the currency, percentages in thousandths of a percent, pools in whole
\* currency units: (basePrizePool * percentage) / 100 is pool * pct units.
AmountUnit == 100000

\* the units of one hundredth of the currency
Hundredth == AmountUnit \div 100

\* (basePrizePool * percentage) / 100
PercentOfPool(pool, pct) == pool * pct

\* Math.round(amount * 100) / 100: to the nearest hundredth, halves upwards
RoundToHundredths(amount) ==
    ((amount + Hundredth \div 2) \div Hundredth) * Hundredth

\* distributeTournamentPrizes, percentage branch: the percentage of the
\* position (no additional entries are stored), times the pool, not rounded
PercentagePrizeAmount(prizes, position) ==
    PercentOfPool(prizes.basePrizePool, prizes.pct[position])

\* the amount of one requested payout: by prize structure, or the custom amount
PrizeAmount(t, prize) ==
    LET byStructure ==
            IF t.prizeType = "fixed"
            THEN FixedPrizeAmount(t.prizes, prize.position)
            ELSE IF t.prizeType = "percentage"
            THEN PercentagePrizeAmount(t.prizes, prize.position)
            ELSE 0
    IN  IF prize.customAmount > 0 THEN prize.customAmount ELSE byStructure

CalculatedPrizes(t, dist) ==
    [i \in DOMAIN dist |->
        [userId |-> dist[i].userId, amount |-> PrizeAmount(t, dist[i])]]

\* what the handler keeps of the tournament document it read
Snapshot(t) ==
    [participants |-> t.participants, prizeType |-> t.prizeType,
     prizes |-> t.prizes]

\* a replay guard that looks for the entries of another type
PrizeEntriesOfResults(tid) ==
    {e \in transactions :
        /\ e.tournament = tid
        /\ e.type = "tournament_prize"
        /\ e.status = "completed"}

\* Transaction.find({tournament, type: "prize_payout", status: "completed"})
ExistingPrizePayouts(tid) ==
    {e \in transactions :
        /\ e.tournament = tid
        /\ e.type = "prize_payout"
        /\ e.status = "completed"}

\* the roster check: the payees that are not participants
InvalidUsers(participants, dist) ==
    {i \in DOMAIN dist : dist[i].userId \notin Range(participants)}

PrizePayoutEntry(tid, line, ref) ==
    [ user |-> line.userId, tournament |-> tid, type |-> "prize_payout",
      amount |-> line.amount, status |-> "completed", reference |-> ref ]

WinnerNotification(tid, line, ref) ==
    [user |-> line.userId, tournament |-> tid, reference |-> ref]

\* a user.save() without the session
SavesUserOutsideSession == FALSE

\* a notifyTournamentWinner that lets its errors reach the caller
WinnerNotificationThrows == FALSE

\* notifyTournamentWinner catches what createNotification throws and
\* returns null
WinnerNotificationSwallowsErrors == TRUE

\* which writes of the payout loop carry the session of the transaction
SavesUserInSession == TRUE
CreatesEntryInSession == TRUE
UpdatesTournamentInSession == TRUE

\* a handler that looks at the status before it looks at the caller
DistFindCheckingStatusFirst(r) ==
    /\ Arrives(r)
    /\ \E actor \in Users, tid \in TIds, wellFormed \in BOOLEAN :
        LET started == [req EXCEPT ![r].op = "distribute",
                                   ![r].actor = actor, ![r].tid = tid]
            fail(code) ==
                [req EXCEPT ![r] = [Answered("distribute", tid, code)
                                        EXCEPT !.actor = actor]]
        IN  req' =
              IF ~wellFormed THEN fail("BodyInvalid")
              ELSE IF tid \notin DOMAIN tournaments THEN fail("NotFound")
              ELSE IF tournaments[tid].status # "completed"
                   THEN fail("NotCompleted")
              ELSE IF tournaments[tid].organizer # actor
                   THEN fail("NotOrganizer")
              ELSE [started EXCEPT ![r].pc = "dist_check",
                                   ![r].snap = Snapshot(tournaments[tid])]
    /\ UNCHANGED <<db, notifications>>
    /\ UNCHANGED <<life, calc>>

\* body validation, Tournament.findById and the checks on the document
DistFind(r) ==
    /\ Arrives(r)
    /\ \E actor \in Users, tid \in TIds, wellFormed \in BOOLEAN :
        LET started == [req EXCEPT ![r].op = "distribute",
                                   ![r].actor = actor, ![r].tid = tid]
            fail(code) ==
                [req EXCEPT ![r] = [Answered("distribute", tid, code)
                                        EXCEPT !.actor = actor]]
        IN  req' =
              IF ~wellFormed THEN fail("BodyInvalid")
              ELSE IF tid \notin DOMAIN tournaments THEN fail("NotFound")
              ELSE IF tournaments[tid].organizer # actor
                   THEN fail("NotOrganizer")
              ELSE IF tournaments[tid].status # "completed"
                   THEN fail("NotCompleted")
              ELSE [started EXCEPT ![r].pc = "dist_check",
                                   ![r].snap = Snapshot(tournaments[tid])]
    /\ UNCHANGED <<db, notifications>>
    /\ UNCHANGED <<life, calc>>

\* a handler that checks each amount as it pays: the lines before the first
\* amount that is not positive are credited and recorded
DistCheckPayingAsItGoes(r) ==
    /\ req[r].pc = "dist_check"
    /\ IF ExistingPrizePayouts(req[r].tid) # {}
       THEN /\ req' = Finish(r, "AlreadyDistributed")
            /\ UNCHANGED db
       ELSE \E dist \in DistributionInputs :
              LET prizes == CalculatedPrizes(req[r].snap, dist)
                  bad == {i \in DOMAIN prizes : prizes[i].amount <= 0}
                  first == CHOOSE i \in bad : \A j \in bad : i <= j
                  paidLines == SubSeq(prizes, 1, first - 1)
              IN  IF InvalidUsers(req[r].snap.participants, dist) # {}
                  THEN /\ req' = Finish(r, "NotParticipant")
                       /\ UNCHANGED db
                  ELSE IF bad # {}
                  THEN /\ req' = Finish(r, "InvalidAmount")
                       /\ walletBalance' =
                            [u \in Users |->
                                walletBalance[u] + CreditFor(u, paidLines)]
                       /\ transactions' = transactions \cup
                            {PrizePayoutEntry(req[r].tid, paidLines[i], <<r, i>>) :
                                i \in DOMAIN paidLines}
                       /\ tournaments' = tournaments
                  ELSE /\ req' = [req EXCEPT ![r].pc = "dist_txn",
                                             ![r].lines = prizes]
                       /\ UNCHANGED db
    /\ UNCHANGED notifications
    /\ UNCHANGED <<life, calc>>

\* Transaction.find (the replay guard), the roster check and the amounts
DistCheck(r) ==
    /\ req[r].pc = "dist_check"
    /\ IF ExistingPrizePayouts(req[r].tid) # {}
       THEN req' = Finish(r, "AlreadyDistributed")
       ELSE \E dist \in DistributionInputs :
              LET prizes == CalculatedPrizes(req[r].snap, dist)
              IN  req' =
                    IF InvalidUsers(req[r].snap.participants, dist) # {}
                    THEN Finish(r, "NotParticipant")
                    ELSE IF \E i \in DOMAIN prizes : prizes[i].amount <= 0
                    THEN Finish(r, "InvalidAmount")
                    ELSE [req EXCEPT ![r].pc = "dist_txn",
                                     ![r].lines = prizes]
    /\ UNCHANGED <<db, notifications>>
    /\ UNCHANGED <<life, calc>>

\* The session's transaction.  failAt = 0: every line is written and the
\* transaction commits.  failAt = k: the k-th operation throws (a user is not
\* found, a write conflicts, the commit fails when k is past the last line)
\* and the transaction is aborted: the writes made in the session are
\* discarded, the others stay.  The notifications of the lines processed were
\* requested either way.
DistTxn(r) ==
    /\ req[r].pc = "dist_txn"
    /\ \E failAt \in 0..(Len(req[r].lines) + 1) :
        LET tid == req[r].tid
            n == Len(req[r].lines)
            committed ==
                /\ failAt = 0
                /\ WinnerNotificationSwallowsErrors \/ notifier = "up"
            processed == IF failAt = 0 THEN n ELSE failAt - 1
            paidLines == SubSeq(req[r].lines, 1, processed)
            answer == IF committed THEN Success(r, 0, req[r].lines)
                      ELSE Finish(r, "Error")
        IN  /\ walletBalance' =
                 IF committed \/ ~SavesUserInSession
                 THEN [u \in Users |->
                         walletBalance[u] + CreditFor(u, paidLines)]
                 ELSE walletBalance
            /\ transactions' =
                 IF committed \/ ~CreatesEntryInSession
                 THEN transactions \cup
                      {PrizePayoutEntry(tid, paidLines[i], <<r, i>>) :
                         i \in 1..processed}
                 ELSE transactions
            /\ tournaments' =
                 IF committed \/ (~UpdatesTournamentInSession /\ processed = n)
                 THEN [tournaments EXCEPT ![tid].prizesDistributed = TRUE]
                 ELSE tournaments
            /\ notifications' =
                 IF notifier = "up"
                 THEN notifications \cup
                      {WinnerNotification(tid, paidLines[i], <<r, i>>) :
                         i \in 1..processed}
                 ELSE notifications
            /\ req' = [answer EXCEPT ![r].faults = [db |-> failAt]]
    /\ UNCHANGED <<life, calc>>

(***************************************************************************)
(* submitTournamentResults: POST /api/tournaments/:id/results              *)
(***************************************************************************)
ResultPositions == {1, 2}

ResultLineInputs == [userId : {"p1", "x"}, position : ResultPositions]

\* req.body.results; the empty array stands for every malformed body
ResultInputs == SeqsUpTo(ResultLineInputs, MaxLines)

\* the ordered amounts are read for the first five results only
MaxRankedPrizes == 5

\* x placed behind the entries of the sorted s that do not come after it
InsertByPosition(s, x) ==
    LET before == {i \in DOMAIN s : s[i].position <= x.position}
        k == Cardinality(before)
    IN  SubSeq(s, 1, k) \o <<x>> \o SubSeq(s, k + 1, Len(s))

\* results.sort((a, b) => a.position - b.position), a stable sort
RECURSIVE SortByPosition(_)
SortByPosition(s) ==
    IF Len(s) <= 1 THEN s
    ELSE InsertByPosition(SortByPosition(SubSeq(s, 1, Len(s) - 1)), s[Len(s)])

PositiveAmount(line) == line.amount > 0

\* the fixed branch of calculatePrizeDistribution, on the sorted results
FixedDistribution(prizes, sorted) ==
    LET ranked ==
            [i \in 1..Min(Len(sorted), MaxRankedPrizes) |->
                [userId |-> sorted[i].userId,
                 amount |-> AmountAt(prizes.amounts, i)]]
        holder(ap) ==
            LET hits == {i \in DOMAIN sorted : sorted[i].position = ap.position}
            IN  IF hits = {} \/ ap.amount <= 0 THEN [userId |-> "x", amount |-> 0]
                ELSE [userId |->
                        sorted[CHOOSE i \in hits : \A j \in hits : i <= j].userId,
                      amount |-> ap.amount]
        extra == [i \in DOMAIN prizes.additional |-> holder(prizes.additional[i])]
    IN  SelectSeq(ranked, PositiveAmount) \o SelectSeq(extra, PositiveAmount)

\* positions = ["1st", "2nd", "3rd", "4th", "5th"]
RankLabels == <<"1st", "2nd", "3rd", "4th", "5th">>

\* the percentage branch of calculatePrizeDistribution, on the sorted
\* results: a line where the amount is positive, rounded when pushed
PercentageDistribution(prizes, sorted) ==
    LET ranked ==
            [i \in 1..Min(Len(sorted), Len(RankLabels)) |->
                [userId |-> sorted[i].userId,
                 amount |-> PercentOfPool(prizes.basePrizePool,
                                          prizes.pct[RankLabels[i]])]]
        kept == SelectSeq(ranked, PositiveAmount)
    IN  [i \in DOMAIN kept |->
            [kept[i] EXCEPT !.amount = RoundToHundredths(@)]]

calculatePrizeDistribution(t, results) ==
    IF t.prizeType = "fixed"
    THEN FixedDistribution(t.prizes, SortByPosition(results))
    ELSE IF t.prizeType = "percentage"
    THEN PercentageDistribution(t.prizes, SortByPosition(results))
    ELSE <<>>

TournamentPrizeEntry(tid, line, ref) ==
    [ user |-> line.userId, tournament |-> tid, type |-> "tournament_prize",
      amount |-> line.amount, status |-> "completed", reference |-> ref ]

\* Tournament.findById, the checks and calculatePrizeDistribution
SubmitFind(r) ==
    /\ Arrives(r)
    /\ \E actor \in Users, tid \in TIds, results \in ResultInputs :
        LET started == [req EXCEPT ![r].op = "submit",
                                   ![r].actor = actor, ![r].tid = tid]
            fail(code) == [req EXCEPT ![r] = Answered("submit", tid, code)]
        IN  req' =
              IF tid \notin DOMAIN tournaments THEN fail("NotFound")
              ELSE IF tournaments[tid].organizer # actor
                   THEN fail("NotOrganizer")
              ELSE IF results = <<>> THEN fail("BodyInvalid")
              ELSE [started EXCEPT
                      ![r].pc = "submit_pay",
                      ![r].input = SortByPosition(results),
                      ![r].lines =
                          calculatePrizeDistribution(tournaments[tid], results)]
    /\ UNCHANGED <<db, notifications>>
    /\ UNCHANGED <<life, calc>>

\* one round of the payout loop, for a line with prize.amount > 0 (a line
\* without is passed over): User.findByIdAndUpdate ($inc), then
\* Transaction.create, then the notification; either write may throw, which
\* ends the handler in its catch block
SubmitPayLine(r) ==
    /\ req[r].pc = "submit_pay"
    /\ req[r].paid < Len(req[r].lines)
    /\ \E thrown \in {"none", "update", "create"} :
        LET i == req[r].paid + 1
            line == req[r].lines[i]
            tid == req[r].tid
        IN  IF line.amount <= 0
            THEN /\ req' = [req EXCEPT ![r].paid = i]
                 /\ UNCHANGED <<walletBalance, transactions, notifications>>
            ELSE
            /\ walletBalance' =
                 IF thrown = "update" THEN walletBalance
                 ELSE [walletBalance EXCEPT ![line.userId] = @ + line.amount]
            /\ transactions' =
                 IF thrown = "none"
                 THEN transactions \cup
                      {TournamentPrizeEntry(tid, line, <<r, i>>)}
                 ELSE transactions
            /\ notifications' =
                 IF thrown = "none" /\ notifier = "up"
                 THEN notifications \cup
                      {WinnerNotification(tid, line, <<r, i>>)}
                 ELSE notifications
            /\ req' =
                 IF thrown = "none" THEN [req EXCEPT ![r].paid = i]
                 ELSE Finish(r, "Error")
    /\ UNCHANGED tournaments
    /\ UNCHANGED <<life, calc>>

\* tournament.save() with status and results set, after the loop
SubmitSave(r) ==
    /\ req[r].pc = "submit_pay"
    /\ req[r].paid = Len(req[r].lines)
    /\ \E saved \in BOOLEAN :
        /\ tournaments' =
             IF saved
             THEN [tournaments EXCEPT ![req[r].tid].status = "completed",
                                      ![req[r].tid].results = req[r].input]
             ELSE tournaments
        /\ req' = IF saved THEN Success(r, 0, req[r].lines)
                   ELSE Finish(r, "Error")
    /\ UNCHANGED <<walletBalance, transactions, notifications>>
    /\ UNCHANGED <<life, calc>>

(***************************************************************************)
(* Time: instants are whole minutes.  The schedule of a tournament is its  *)
(* start instant, its duration and its lifecycle flags.                    *)
(***************************************************************************)
MaxTime == 12         \* the last instant the clock reaches

ReminderLead == 5     \* the reminder is due five minutes before the start

MinDuration == 5      \* minimumDurationMinutes

\* minutes between the creation and the requested start
StartsInInputs == {6}

DurationInputs == {MinDuration}

Statuses == {"upcoming", "active", "completed", "cancelled"}

NewSchedule(start, duration) ==
    [ start                  |-> start,
      duration               |-> duration,
      manualStatusOverride   |-> FALSE,
      fiveMinuteReminderSent |-> FALSE ]

\* the schedule of a tournament that started at instant 0
PastSchedule ==
    [NewSchedule(0, MinDuration) EXCEPT !.fiveMinuteReminderSent = TRUE]

\* the clock at instant n, before the cron jobs of that minute have run
ClockAt(n) == [now |-> n, reminderRan |-> FALSE, statusRan |-> FALSE]

NoCalc == [phase |-> "none"]

NoReminders == [t \in TIds |-> [calls |-> 0, delivered |-> 0]]

\* scheduleTournamentReminder: a one-shot timer at five minutes before the
\* start, when that instant is still ahead
ReminderTimer(tid, start, now) ==
    LET reminderTime == start - ReminderLead
        delay == reminderTime - now
    IN  IF delay > 0 THEN {[tid |-> tid, at |-> reminderTime]} ELSE {}

(***************************************************************************)
(* createTournament: POST /api/tournaments                                 *)
(***************************************************************************)
\* a value of the request body: a number (or numeric string), or anything
\* parseFloat makes NaN of
RawNum(v) == [num |-> TRUE, val |-> v]
RawJunk == [num |-> FALSE, val |-> 0]

\* parseFloat(a) || 0
ParseFloatOrZero(a) == IF a.num THEN a.val ELSE 0

RawAmountInputs == {RawNum(100), RawNum(-50), RawJunk}

MaxPrizes == 2        \* entries of prizes.fixed.amounts in a request

\* req.body.prizes.fixed.amounts
AmountsInputs == SeqsUpTo(RawAmountInputs, MaxPrizes)

EntryFeeInputs == {RawNum(50), RawNum(-50)}

FundingMethods == {"wallet", "topup"}

\* the users who create tournaments
Organizers == {"org"}

\* normalizedPrizes for prizeType "fixed" with an amounts array
NormalizeFixed(rawAmounts) ==
    [amounts |-> [i \in DOMAIN rawAmounts |-> ParseFloatOrZero(rawAmounts[i])],
     additional |-> <<>>]

RECURSIVE SumSeq(_)
SumSeq(s) == IF s = <<>> THEN 0 ELSE s[1] + SumSeq(Tail(s))

\* the legacy keys present, in the order of labels.forEach
RECURSIVE RanksInOrder(_)
RanksInOrder(S) ==
    IF S = {} THEN <<>>
    ELSE LET first == CHOOSE k \in S : \A j \in S : k <= j
         IN  <<first>> \o RanksInOrder(S \ {first})

\* a normalization of the legacy keys that fills all five ranks
NormalizeLegacyPadded(legacy) ==
    [k \in 1..5 |->
        IF k \in DOMAIN legacy THEN ParseFloatOrZero(legacy[k]) ELSE 0]

\* amounts from the legacy keys '1st'..'5th' (rank k stands for the k-th
\* label): one entry for every key present, none for the others
NormalizeLegacy(legacy) ==
    LET present == RanksInOrder(DOMAIN legacy)
    IN  [i \in DOMAIN present |-> ParseFloatOrZero(legacy[present[i]])]

\* prizes.fixed.additional.map: parseInt(position) || 0, parseFloat(amount) || 0
NormalizeAdditional(rawAdditional) ==
    [i \in DOMAIN rawAdditional |->
        [position |-> rawAdditional[i].position,
         amount |-> ParseFloatOrZero(rawAdditional[i].amount)]]

\* normalizedPrizes.fixed of a request body
NormalizeFixedBody(body) ==
    [amounts |-> IF body.kind = "amounts"
                 THEN NormalizeFixed(body.amounts).amounts
                 ELSE NormalizeLegacy(body.legacy),
     additional |-> NormalizeAdditional(body.additional)]

\* normalizedPrizes.percentage: the pool (the percentages play no part in
\* the pool)
NormalizePercentageBody(body) ==
    [basePrizePool |-> ParseFloatOrZero(body.basePrizePool)]

\* normalizedPrizes.special: isFixed defaults to true
NormalizeSpecialBody(body) ==
    [isFixed |-> body.isFixed # "false",
     basePrizePool |-> ParseFloatOrZero(body.basePrizePool),
     specialPrizes |->
        [i \in DOMAIN body.specialPrizes |->
            [amount |-> ParseFloatOrZero(body.specialPrizes[i].amount),
             isPercentage |-> body.specialPrizes[i].isPercentage]]]

\* totalPrizePool for prizeType "special"
SpecialPrizePool(special) ==
    IF special.isFixed THEN SumAmounts(special.specialPrizes)
    ELSE special.basePrizePool

\* a pool of the fixed structure that leaves the additional prizes out
TotalPrizePoolOrderedOnly(prizes) == SumSeq(prizes.amounts)

\* totalPrizePool of a fixed prize structure
TotalPrizePool(prizes) ==
    SumSeq(prizes.amounts) + SumAmounts(prizes.additional)

\* a fee check that tolerates a fee of up to 50 above the pool
EntryFeeExceedsPoolByMargin(fee, pool) == fee > pool + 50

\* parsedEntryFee > totalPrizePool
EntryFeeExceedsPool(fee, pool) == fee > pool

\* user.walletBalance < totalPrizePool
CreateInsufficient(balance, pool) == balance < pool

NewTournament(actor, fee, prizes) ==
    [ organizer        |-> actor,
      status           |-> "upcoming",
      participants     |-> <<>>,
      entryFee         |-> fee,
      prizeType        |-> "fixed",
      prizes           |-> prizes,
      results          |-> <<>>,
      prizesDistributed |-> FALSE ]

\* creations under way: each will need a tournament id
Creating == {q \in Reqs : req[q].pc \in {"create_debit", "create_persist"}}

\* a handler that debits the pool before it checks the entry fee
CreateReadCheckingFeeLate(r) ==
    /\ Arrives(r)
    /\ Cardinality(DOMAIN tournaments) + Cardinality(Creating) < MaxTournaments
    /\ \E actor \in Organizers, rawAmounts \in AmountsInputs,
          rawFee \in EntryFeeInputs, fundingMethod \in FundingMethods :
        LET prizes == NormalizeFixed(rawAmounts)
            pool == TotalPrizePool(prizes)
            fee == ParseFloatOrZero(rawFee)
            fail(code) == [req EXCEPT ![r] = Answered("create", 0, code)]
        IN  IF fundingMethod = "topup"
            THEN req' = fail("RedirectToTopup") /\ UNCHANGED walletBalance
            ELSE IF CreateInsufficient(walletBalance[actor], pool)
            THEN req' = fail("InsufficientFunds") /\ UNCHANGED walletBalance
            ELSE IF EntryFeeExceedsPool(fee, pool)
            THEN /\ req' = fail("EntryFeeExceedsPool")
                 /\ walletBalance' =
                      [walletBalance EXCEPT ![actor] = @ - pool]
            ELSE /\ req' = [req EXCEPT ![r] =
                      [IdleReq EXCEPT !.op = "create", !.pc = "create_debit",
                                      !.actor = actor, !.tid = 0,
                                      !.snap = [entryFee |-> fee,
                                                prizes |-> prizes],
                                      !.amount = pool,
                                      !.bal = walletBalance[actor] - pool]]
                 /\ UNCHANGED walletBalance
    /\ UNCHANGED <<tournaments, transactions, notifications>>
    /\ UNCHANGED <<life, calc>>

\* validation, normalization, the pool, the entry fee check and, for wallet
\* funding, User.findById with the balance check
CreateRead(r) ==
    /\ Arrives(r)
    /\ Cardinality(DOMAIN tournaments) + Cardinality(Creating) < MaxTournaments
    /\ \E actor \in Organizers, rawAmounts \in AmountsInputs,
          rawFee \in EntryFeeInputs, fundingMethod \in FundingMethods :
        LET prizes == NormalizeFixed(rawAmounts)
            pool == TotalPrizePool(prizes)
            fee == ParseFloatOrZero(rawFee)
            fail(code) == [req EXCEPT ![r] = Answered("create", 0, code)]
        IN  req' =
              IF EntryFeeExceedsPool(fee, pool) THEN fail("EntryFeeExceedsPool")
              ELSE IF fundingMethod = "topup" THEN fail("RedirectToTopup")
              ELSE IF CreateInsufficient(walletBalance[actor], pool)
                   THEN fail("InsufficientFunds")
              ELSE [req EXCEPT ![r] =
                      [IdleReq EXCEPT !.op = "create", !.pc = "create_debit",
                                      !.actor = actor, !.tid = 0,
                                      !.snap = [entryFee |-> fee,
                                                prizes |-> prizes],
                                      !.amount = pool,
                                      !.bal = walletBalance[actor] - pool]]
    /\ UNCHANGED <<db, notifications>>
    /\ UNCHANGED <<life, calc>>

\* user.save() of the debited balance, which writes walletBalance when the
\* subtraction has changed it; an error answers 500
CreateDebit(r) ==
    /\ req[r].pc = "create_debit"
    /\ \E saved \in BOOLEAN :
        IF saved
        THEN /\ walletBalance' =
                  IF req[r].amount = 0 THEN walletBalance
                  ELSE [walletBalance EXCEPT ![req[r].actor] = req[r].bal]
             /\ req' = [req EXCEPT ![r].pc = "create_persist", ![r].paid = 1]
        ELSE /\ walletBalance' = walletBalance
             /\ req' = Finish(r, "Error")
    /\ UNCHANGED <<tournaments, transactions, notifications>>
    /\ UNCHANGED <<life, calc>>

\* Tournament.create, which may fail; then the funding entry, whose failure is
\* only logged; then the organizer's list of tournaments, whose failure
\* answers 500 with the tournament stored; then scheduleTournamentReminder
CreatePersist(r) ==
    /\ req[r].pc = "create_persist"
    /\ \E thrown \in {"none", "create", "followUp"}, recorded \in BOOLEAN,
          startsIn \in StartsInInputs, duration \in DurationInputs :
        LET tid == CHOOSE t \in TIds \ DOMAIN tournaments :
                      \A o \in TIds \ DOMAIN tournaments : t <= o
            start == clock.now + startsIn
        IN  IF thrown = "create"
            THEN /\ recorded
                 /\ UNCHANGED <<tournaments, transactions, schedule, timers>>
                 /\ req' = Finish(r, "Error")
            ELSE /\ tournaments' = tournaments @@
                      (tid :> NewTournament(req[r].actor, req[r].snap.entryFee,
                                            req[r].snap.prizes))
                 /\ schedule' = schedule @@ (tid :> NewSchedule(start, duration))
                 /\ transactions' =
                      IF recorded
                      THEN transactions \cup
                           {FundingEntry(req[r].actor, tid, req[r].amount,
                                         <<r, 0>>)}
                      ELSE transactions
                 /\ timers' = IF thrown = "none"
                              THEN timers \cup ReminderTimer(tid, start, clock.now)
                              ELSE timers
                 /\ req' = IF thrown = "followUp"
                           THEN [req EXCEPT ![r] = Answered("create", tid, "Error")]
                           ELSE [Success(r, req[r].amount, <<>>)
                                    EXCEPT ![r].tid = tid]
    /\ UNCHANGED <<walletBalance, notifications, clock, reminders, notifier,
                   calc>>

(***************************************************************************)
(* registerForTournament: POST /api/tournaments/:id/register               *)
(***************************************************************************)
\* the users with a linked Lichess account
LinkedUsers == {"org", "p1", "p2"}

\* user.walletBalance < tournament.entryFee
RegisterInsufficient(balance, fee) == balance < fee

EntryEntry(u, tid, amt, ref) ==
    [ user |-> u, tournament |-> tid, type |-> "tournament_entry",
      amount |-> amt, status |-> "completed", reference |-> ref ]

\* Tournament.findById and the check of the participants
RegFind(r) ==
    /\ Arrives(r)
    /\ \E actor \in Users, tid \in TIds :
        LET fail(code) == [req EXCEPT ![r] = Answered("register", tid, code)]
        IN  req' =
              IF tid \notin DOMAIN tournaments THEN fail("NotFound")
              ELSE IF actor \in Range(tournaments[tid].participants)
                   THEN fail("AlreadyRegistered")
              ELSE [req EXCEPT ![r] =
                      [IdleReq EXCEPT !.op = "register", !.pc = "reg_user",
                                      !.actor = actor, !.tid = tid,
                                      !.amount = tournaments[tid].entryFee]]
    /\ UNCHANGED <<db, notifications>>
    /\ UNCHANGED <<life, calc>>

\* User.findById, the Lichess check, the balance check and the confirmation
RegUser(r) ==
    /\ req[r].pc = "reg_user"
    /\ \E confirmed \in BOOLEAN :
        LET fee == req[r].amount
            balance == walletBalance[req[r].actor]
        IN  req' =
              IF req[r].actor \notin LinkedUsers THEN Finish(r, "NotLinked")
              ELSE IF fee > 0 /\ RegisterInsufficient(balance, fee)
                   THEN Finish(r, "InsufficientFunds")
              ELSE IF fee > 0 /\ ~confirmed
                   THEN Finish(r, "NeedsConfirmation")
              ELSE IF fee > 0
                   THEN [req EXCEPT ![r].pc = "reg_debit",
                                    ![r].bal = balance - fee]
              ELSE [req EXCEPT ![r].pc = "reg_join", ![r].amount = 0]
    /\ UNCHANGED <<db, notifications>>
    /\ UNCHANGED <<life, calc>>

\* user.save() of the debited balance and the entry record
RegDebit(r) ==
    /\ req[r].pc = "reg_debit"
    /\ walletBalance' = [walletBalance EXCEPT ![req[r].actor] = req[r].bal]
    /\ transactions' = transactions \cup
          {EntryEntry(req[r].actor, req[r].tid, req[r].amount, <<r, 0>>)}
    /\ req' = [req EXCEPT ![r].pc = "reg_join", ![r].paid = 1]
    /\ UNCHANGED <<tournaments, notifications>>
    /\ UNCHANGED <<life, calc>>

\* tournament.participants.push and save: a $push on the stored array
RegJoin(r) ==
    /\ req[r].pc = "reg_join"
    /\ tournaments' =
          [tournaments EXCEPT ![req[r].tid].participants =
                                  Append(@, req[r].actor)]
    /\ req' = Success(r, req[r].amount, <<>>)
    /\ UNCHANGED <<walletBalance, transactions, notifications>>
    /\ UNCHANGED <<life, calc>>

(***************************************************************************)
(* initiateWithdrawal: POST /api/wallet/withdraw                           *)
(***************************************************************************)
MinWithdrawal == 100

WithdrawalInputs == {50, 100}

\* a balance check that only refuses an empty wallet
WithdrawInsufficientOnlyWhenEmpty(balance, amount) == balance <= 0

\* user.walletBalance < amount
WithdrawInsufficient(balance, amount) == balance < amount

WithdrawalEntry(u, amt, st, ref) ==
    [ user |-> u, tournament |-> 0, type |-> "withdrawal",
      amount |-> amt, status |-> st, reference |-> ref ]

\* the validations, the PIN, User.findById and the balance check
WdRead(r) ==
    /\ Arrives(r)
    /\ \E actor \in Users, amount \in WithdrawalInputs, pinOk \in BOOLEAN :
        LET fail(code) == [req EXCEPT ![r] = Answered("withdraw", 0, code)]
        IN  req' =
              IF amount <= 0 THEN fail("InvalidAmount")
              ELSE IF amount < MinWithdrawal THEN fail("BelowMinimum")
              ELSE IF ~pinOk THEN fail("PinRejected")
              ELSE IF WithdrawInsufficient(walletBalance[actor], amount)
                   THEN fail("InsufficientFunds")
              ELSE [req EXCEPT ![r] =
                      [IdleReq EXCEPT !.op = "withdraw", !.pc = "wd_create",
                                      !.actor = actor, !.tid = 0,
                                      !.amount = amount,
                                      !.bal = walletBalance[actor]]]
    /\ UNCHANGED <<db, notifications>>
    /\ UNCHANGED <<life, calc>>

\* Transaction.create of the pending withdrawal
WdCreate(r) ==
    /\ req[r].pc = "wd_create"
    /\ transactions' = transactions \cup
          {WithdrawalEntry(req[r].actor, req[r].amount, "pending", <<r, 0>>)}
    /\ req' = [req EXCEPT ![r].pc = "wd_debit",
                          ![r].bal = req[r].bal - req[r].amount]
    /\ UNCHANGED <<walletBalance, tournaments, notifications>>
    /\ UNCHANGED <<life, calc>>

\* user.save() of the debited balance, before the gateway is called
WdDebit(r) ==
    /\ req[r].pc = "wd_debit"
    /\ walletBalance' = [walletBalance EXCEPT ![req[r].actor] = req[r].bal]
    /\ req' = [req EXCEPT ![r].pc = "wd_gateway", ![r].paid = 1]
    /\ UNCHANGED <<tournaments, transactions, notifications>>
    /\ UNCHANGED <<life, calc>>

\* the gateway's answer: the transfer went through, waits for an OTP, or failed;
\* on failure the handler adds the amount back to the balance it holds and
\* saves it, then marks the withdrawal failed
WdGateway(r) ==
    /\ req[r].pc = "wd_gateway"
    /\ \E outcome \in {"success", "otp", "error"} :
        LET settled(st) ==
                {IF e.reference = <<r, 0>> THEN [e EXCEPT !.status = st]
                 ELSE e : e \in transactions}
        IN  CASE outcome = "success" ->
                   /\ transactions' = settled("completed")
                   /\ walletBalance' = walletBalance
                   /\ req' = Success(r, req[r].amount, <<>>)
              [] outcome = "otp" ->
                   /\ UNCHANGED <<transactions, walletBalance>>
                   /\ req' = Success(r, req[r].amount, <<>>)
              [] outcome = "error" ->
                   /\ transactions' = settled("failed")
                   /\ walletBalance' =
                        [walletBalance EXCEPT
                            ![req[r].actor] = req[r].bal + req[r].amount]
                   /\ req' = Finish(r, "Refunded")
    /\ UNCHANGED <<tournaments, notifications>>
    /\ UNCHANGED <<life, calc>>

(***************************************************************************)
(* Prize distribution on a running tournament: the organizer (or anybody   *)
(* else) submits results and asks for distributions, in any interleaving.  *)
(***************************************************************************)
Init ==
    /\ walletBalance = [u \in Users |-> 0]
    /\ \E st \in {"active", "completed"} :
          tournaments = (1 :> RunningTournament(st))
    /\ transactions = {FundingEntry("org", 1, 150, <<0, 0>>)}
    /\ notifications = {}
    /\ req = [r \in Reqs |-> IdleReq]
    /\ clock = ClockAt(IF tournaments[1].status = "active" THEN 0 ELSE MinDuration)
    /\ schedule = (1 :> PastSchedule)
    /\ timers = {}
    /\ reminders = NoReminders
    /\ notifier = "up"
    /\ calc = NoCalc

Next ==
    \E r \in Reqs :
        \/ DistFind(r)
        \/ DistCheck(r)
        \/ DistTxn(r)
        \/ SubmitFind(r)
        \/ SubmitPayLine(r)
        \/ SubmitSave(r)

Spec == Init /\ [][Next]_vars

(***************************************************************************)
(* The wallet: creations, registrations, withdrawals and prize payments on *)
(* the balances of the same users, in any interleaving.                    *)
(***************************************************************************)
WalletInitBalance == [u \in Users |-> IF u \in {"org", "p2"} THEN 150 ELSE 0]

\* a completed tournament with an entry fee that "p1" has joined
OpenTournament ==
    [RunningTournament("completed") EXCEPT !.participants = <<"p1">>,
                                           !.entryFee = 50]

InitWallet ==
    /\ walletBalance = WalletInitBalance
    /\ tournaments = (1 :> OpenTournament)
    /\ transactions = {FundingEntry("org", 1, 150, <<0, 0>>),
                       EntryEntry("p1", 1, 50, <<0, 1>>)}
    /\ notifications = {}
    /\ req = [r \in Reqs |-> IdleReq]
    /\ clock = ClockAt(MinDuration)
    /\ schedule = (1 :> PastSchedule)
    /\ timers = {}
    /\ reminders = NoReminders
    /\ notifier = "up"
    /\ calc = NoCalc

NextWallet ==
    \E r \in Reqs :
        \/ CreateRead(r)
        \/ CreateDebit(r)
        \/ CreatePersist(r)
        \/ RegFind(r)
        \/ RegUser(r)
        \/ RegDebit(r)
        \/ RegJoin(r)
        \/ WdRead(r)
        \/ WdCreate(r)
        \/ WdDebit(r)
        \/ WdGateway(r)
        \/ SubmitFind(r)
        \/ SubmitPayLine(r)
        \/ SubmitSave(r)
        \/ DistFind(r)
        \/ DistCheck(r)
        \/ DistTxn(r)

SpecWallet == InitWallet /\ [][NextWallet]_vars


(***************************************************************************)
(* The lifecycle: the status engine, run by the status cron job and by the *)
(* read handlers, the organizer's status updates, and the reminders, sent  *)
(* by the reminder cron job and by the timer armed at creation.            *)
(***************************************************************************)
\* Tournament.updateStatusBasedOnTime: the status that holds at instant now
ComputeStatus(status, sch, now) ==
    LET end == sch.start + sch.duration
    IN  IF sch.manualStatusOverride THEN status
        ELSE CASE status = "upcoming" ->
                    IF now >= end THEN "completed"
                    ELSE IF now >= sch.start THEN "active"
                    ELSE "upcoming"
               [] status = "active" ->
                    IF now >= end THEN "completed" ELSE "active"
               [] OTHER -> status

\* wasUpdated: the status engine reports a transition
WasUpdated(tid, now) ==
    ComputeStatus(tournaments[tid].status, schedule[tid], now)
        # tournaments[tid].status

\* a refresh that computes the status and does not save it
RefreshedWithoutSave(found, now) == tournaments

\* a refresh that derives the status from the clock alone
RefreshedIgnoringOverride(found, now) ==
    [tid \in DOMAIN tournaments |->
        IF tid \in found
        THEN [tournaments[tid] EXCEPT
                !.status = ComputeStatus(
                    @, [schedule[tid] EXCEPT !.manualStatusOverride = FALSE],
                    now)]
        ELSE tournaments[tid]]

\* the tournaments after updateStatusBasedOnTime and, where it reported a
\* change, save() on each tournament of `found`
Refreshed(found, now) ==
    [tid \in DOMAIN tournaments |->
        IF tid \in found /\ WasUpdated(tid, now)
        THEN [tournaments[tid] EXCEPT
                !.status = ComputeStatus(@, schedule[tid], now)]
        ELSE tournaments[tid]]

\* Tournament.isStartingWithinMinutes
IsStartingWithinMinutes(sch, now, minutes) ==
    now < sch.start /\ sch.start - now <= minutes

\* Tournament.find({status: {$in: ["upcoming", "active"]},
\*                  manualStatusOverride: {$ne: true}})
StatusCandidates ==
    {tid \in DOMAIN tournaments :
        /\ tournaments[tid].status \in {"upcoming", "active"}
        /\ ~schedule[tid].manualStatusOverride}

\* a reminder query that looks among the tournaments that have started
ReminderCandidatesAmongActive ==
    {tid \in DOMAIN tournaments :
        /\ tournaments[tid].status = "active"
        /\ ~schedule[tid].fiveMinuteReminderSent}

\* Tournament.find({status: "upcoming", fiveMinuteReminderSent: false})
ReminderCandidates ==
    {tid \in DOMAIN tournaments :
        /\ tournaments[tid].status = "upcoming"
        /\ ~schedule[tid].fiveMinuteReminderSent}

\* notifyTournamentStartingInFiveMinutes on each tournament of `due`: the
\* tournament is read again and its participants, if any, are notified
Notified(due) ==
    [tid \in TIds |->
        IF tid \in due
        THEN [calls     |-> reminders[tid].calls + 1,
              delivered |-> reminders[tid].delivered +
                            (IF /\ tid \in DOMAIN tournaments
                                /\ tournaments[tid].participants # <<>>
                             THEN 1 ELSE 0)]
        ELSE reminders[tid]]

\* the callback of setTimeout runs when its instant has come
TimerFires ==
    /\ \E tm \in timers :
        /\ clock.now >= tm.at
        /\ timers' = timers \ {tm}
        /\ reminders' = Notified({tm.tid})
    /\ UNCHANGED <<db, notifications, req, clock, schedule, notifier, calc>>

\* the reminder cron job, every minute
ReminderCron ==
    /\ ~clock.reminderRan
    /\ LET due == {tid \in ReminderCandidates :
                      IsStartingWithinMinutes(schedule[tid], clock.now,
                                              ReminderLead)}
       IN  /\ reminders' = Notified(due)
           /\ schedule' =
                [tid \in DOMAIN schedule |->
                    IF tid \in due
                    THEN [schedule[tid] EXCEPT !.fiveMinuteReminderSent = TRUE]
                    ELSE schedule[tid]]
    /\ clock' = [clock EXCEPT !.reminderRan = TRUE]
    /\ UNCHANGED <<db, notifications, req, timers, notifier, calc>>

\* the status cron job, every two minutes
StatusCron ==
    /\ clock.now % 2 = 0
    /\ ~clock.statusRan
    /\ tournaments' = Refreshed(StatusCandidates, clock.now)
    /\ clock' = [clock EXCEPT !.statusRan = TRUE]
    /\ UNCHANGED <<walletBalance, transactions, notifications, req,
                   schedule, timers, reminders, notifier, calc>>

\* a minute passes, once the timers and the cron jobs of this minute have run
Tick ==
    /\ clock.now < MaxTime
    /\ clock.reminderRan
    /\ clock.now % 2 = 0 => clock.statusRan
    /\ \A tm \in timers : tm.at > clock.now
    /\ clock' = ClockAt(clock.now + 1)
    /\ UNCHANGED <<db, notifications, req, schedule, timers, reminders,
                   notifier, calc>>

\* getTournament: the tournament is refreshed on read
GetTournament ==
    /\ \E tid \in DOMAIN tournaments :
          tournaments' = Refreshed({tid}, clock.now)
    /\ UNCHANGED <<walletBalance, transactions, notifications, req, life, calc>>

\* getTournaments: every tournament of the page is refreshed on read
GetTournaments ==
    /\ tournaments' = Refreshed(DOMAIN tournaments, clock.now)
    /\ UNCHANGED <<walletBalance, transactions, notifications, req, life, calc>>

\* updateTournamentStatus: the organizer sets the status
UpdateTournamentStatus ==
    /\ \E tid \in DOMAIN tournaments, actor \in {"org", "p1"},
          status \in Statuses :
          tournaments' =
              IF tournaments[tid].organizer # actor THEN tournaments
              ELSE [tournaments EXCEPT ![tid].status = status]
    /\ UNCHANGED <<walletBalance, transactions, notifications, req, life, calc>>

\* the tournament of the lifecycle scenarios starts 3 or 6 minutes after its
\* creation
LifeStartsIn == StartsInInputs \cup {3}

\* a tournament created by "org" at instant 0 for which nobody or "p1" has
\* registered
UpcomingTournament(participants) ==
    [NewTournament("org", 0, FixedPrizes) EXCEPT !.participants = participants]

InitLife ==
    /\ walletBalance = [u \in Users |-> 0]
    /\ \E participants \in {<<>>, <<"p1">>} :
          tournaments = (1 :> UpcomingTournament(participants))
    /\ transactions = {FundingEntry("org", 1, 150, <<0, 0>>)}
    /\ notifications = {}
    /\ req = [r \in Reqs |-> IdleReq]
    /\ clock = ClockAt(0)
    /\ \E startsIn \in LifeStartsIn, override \in BOOLEAN, armed \in BOOLEAN :
          /\ schedule =
                (1 :> [NewSchedule(startsIn, MinDuration)
                          EXCEPT !.manualStatusOverride = override])
          /\ timers = IF armed THEN ReminderTimer(1, startsIn, 0) ELSE {}
    /\ reminders = NoReminders
    /\ notifier = "up"
    /\ calc = NoCalc

NextLife ==
    \/ Tick
    \/ TimerFires
    \/ ReminderCron
    \/ StatusCron
    \/ GetTournament
    \/ GetTournaments
    \/ UpdateTournamentStatus

SpecLife == InitLife /\ [][NextLife]_vars

\* the clock runs, the cron jobs run every minute, the timers fire
SpecLifeFair ==
    /\ SpecLife
    /\ WF_vars(Tick)
    /\ WF_vars(TimerFires)
    /\ WF_vars(ReminderCron)
    /\ WF_vars(StatusCron)

(***************************************************************************)
(* The cron jobs step by step: a tick reads its tournaments, then handles  *)
(* them one after the other, with an await at each write; the next tick    *)
(* starts a minute later whether or not the tick before it has finished,   *)
(* and the organizer's requests are served in between.                     *)
(***************************************************************************)
\* an error thrown while one tournament is handled ends the whole tick
TickErrorsAbort == FALSE

\* try/catch inside the loop of each cron job: the error is logged and the
\* loop goes on with the next tournament
TickErrorsIsolated == TRUE

\* a tick that has read `found`, the documents as they were stored then
StartedTick(op, found) ==
    [found   |-> RanksInOrder(found),
     at      |-> 1,
     status  |-> [tid \in found |-> tournaments[tid].status],
     handled |-> {},
     due     |-> {},
     acted   |-> {},
     failed  |-> {}]
    @@ [IdleReq EXCEPT !.op = op,
                       !.pc = IF found = {} THEN "done" ELSE "loop"]

\* the tournament the loop of tick r is at
Current(r) == req[r].found[req[r].at]

\* the loop of tick r goes on to the next tournament, or ends; after an error
\* it goes on as the catch inside the loop has it
LoopOn(tick, thrown) ==
    LET tid == tick.found[tick.at]
        after == [tick EXCEPT !.handled = @ \cup {tid},
                              !.failed = IF thrown THEN @ \cup {tid} ELSE @,
                              !.at = @ + 1]
    IN  IF thrown /\ ~TickErrorsIsolated THEN [after EXCEPT !.pc = "done"]
        ELSE IF after.at > Len(after.found) THEN [after EXCEPT !.pc = "done"]
        ELSE [after EXCEPT !.pc = "loop"]

\* the reminder cron job starts: Tournament.find
ReminderTickStart(r) ==
    /\ Arrives(r)
    /\ ~clock.reminderRan
    /\ req' = [req EXCEPT ![r] = StartedTick("reminderTick", ReminderCandidates)]
    /\ clock' = [clock EXCEPT !.reminderRan = TRUE]
    /\ UNCHANGED <<db, notifications, schedule, timers, reminders, notifier,
                   calc>>

\* one tournament of the reminder tick: isStartingWithinMinutes(5) and, when
\* it is, notifyTournamentStartingInFiveMinutes
ReminderTickCheck(r) ==
    /\ req[r].op = "reminderTick"
    /\ req[r].pc = "loop"
    /\ LET tid == Current(r)
       IN  IF IsStartingWithinMinutes(schedule[tid], clock.now, ReminderLead)
           THEN /\ reminders' = Notified({tid})
                /\ req' = [req EXCEPT ![r].pc = "notified",
                                      ![r].due = @ \cup {tid}]
           ELSE /\ req' = [req EXCEPT ![r] = LoopOn(@, FALSE)]
                /\ UNCHANGED reminders
    /\ UNCHANGED <<db, notifications, clock, schedule, timers, notifier, calc>>

\* Tournament.findByIdAndUpdate(_id, {$set: {fiveMinuteReminderSent: true}}),
\* which may fail
ReminderTickMark(r) ==
    /\ req[r].op = "reminderTick"
    /\ req[r].pc = "notified"
    /\ \E thrown \in BOOLEAN :
          /\ schedule' = IF thrown THEN schedule
                         ELSE [schedule EXCEPT
                                 ![Current(r)].fiveMinuteReminderSent = TRUE]
          /\ req' = [req EXCEPT
                       ![r] = LoopOn([@ EXCEPT
                                        !.acted = IF thrown THEN @
                                                  ELSE @ \cup {Current(r)}],
                                     thrown)]
    /\ UNCHANGED <<db, notifications, clock, timers, reminders, notifier, calc>>

\* the status cron job starts: Tournament.find
StatusTickStart(r) ==
    /\ Arrives(r)
    /\ clock.now % 2 = 0
    /\ ~clock.statusRan
    /\ req' = [req EXCEPT ![r] = StartedTick("statusTick", StatusCandidates)]
    /\ clock' = [clock EXCEPT !.statusRan = TRUE]
    /\ UNCHANGED <<db, notifications, schedule, timers, reminders, notifier,
                   calc>>

\* one tournament of the status tick: updateStatusBasedOnTime on the document
\* as it was read and, where it reports a change, save(), which writes the
\* status and may fail
StatusTickStep(r) ==
    /\ req[r].op = "statusTick"
    /\ req[r].pc = "loop"
    /\ LET tid == Current(r)
           read == req[r].status[tid]
           status == ComputeStatus(read, schedule[tid], clock.now)
       IN  IF status = read
           THEN /\ req' = [req EXCEPT ![r] = LoopOn(@, FALSE)]
                /\ UNCHANGED tournaments
           ELSE \E thrown \in BOOLEAN :
                   /\ tournaments' =
                        IF thrown THEN tournaments
                        ELSE [tournaments EXCEPT ![tid].status = status]
                   /\ req' = [req EXCEPT
                                ![r] = LoopOn(
                                    [@ EXCEPT
                                       !.due = @ \cup {tid},
                                       !.acted = IF thrown THEN @
                                                 ELSE @ \cup {tid}],
                                    thrown)]
    /\ UNCHANGED <<walletBalance, transactions, notifications, life, calc>>

LastMinute == 3       \* the last instant the clock of the cron scenarios reaches

\* two upcoming tournaments that start at instant 2, the first organized by
\* "org", the second by "p2"
InitTicks ==
    /\ walletBalance = [u \in Users |-> 0]
    /\ tournaments =
          (1 :> UpcomingTournament(<<"p1">>)
           @@ 2 :> [UpcomingTournament(<<"p1">>) EXCEPT !.organizer = "p2"])
    /\ schedule = (1 :> NewSchedule(2, MinDuration)
                   @@ 2 :> NewSchedule(2, MinDuration))
    /\ transactions = {FundingEntry("org", 1, 150, <<0, 0>>),
                       FundingEntry("p2", 2, 150, <<0, 1>>)}
    /\ notifications = {}
    /\ req = [r \in Reqs |-> IdleReq]
    /\ clock = ClockAt(0)
    /\ timers = {}
    /\ reminders = NoReminders
    /\ notifier = "up"
    /\ calc = NoCalc

\* a minute passes, whether or not the ticks started before have finished
MinutePasses ==
    /\ clock.now < LastMinute
    /\ clock' = ClockAt(clock.now + 1)
    /\ UNCHANGED <<db, notifications, req, schedule, timers, reminders,
                   notifier, calc>>

NextTicks ==
    \/ MinutePasses
    \/ UpdateTournamentStatus
    \/ \E r \in Reqs :
          \/ ReminderTickStart(r)
          \/ ReminderTickCheck(r)
          \/ ReminderTickMark(r)
          \/ StatusTickStart(r)
          \/ StatusTickStep(r)

SpecTicks == InitTicks /\ [][NextTicks]_vars

(***************************************************************************)
(* verifyDeposit: GET /api/wallet/verify/:reference, called any number of  *)
(* times for the deposits that were initiated.                             *)
(***************************************************************************)
DepositEntry(u, amt, st, ref) ==
    [ user |-> u, tournament |-> 0, type |-> "deposit",
      amount |-> amt, status |-> st, reference |-> ref ]

\* the references a caller may ask about: two deposits and one that is unknown
DepositReferences == {<<0, 1>>, <<0, 2>>, <<0, 9>>}

\* Transaction.findOne({reference})
FindByReference(ref) == {e \in transactions : e.reference = ref}

\* transaction.save() of a new status
WithStatus(ref, st) ==
    {IF e.reference = ref THEN [e EXCEPT !.status = st] ELSE e :
        e \in transactions}

\* the gateway is asked about the reference, then Transaction.findOne
VdVerify(r) ==
    /\ Arrives(r)
    /\ \E ref \in DepositReferences, status \in {"success", "failed", "error"} :
        LET fail(code) == [req EXCEPT ![r] = Answered("verify", 0, code)]
            found == FindByReference(ref)
        IN  req' =
              IF status = "error" THEN fail("Error")
              ELSE IF found = {} THEN fail("NotFound")
              ELSE [req EXCEPT ![r] =
                      [IdleReq EXCEPT
                         !.op = "verify", !.tid = 0,
                         !.pc = IF status = "success" THEN "vd_mark"
                                ELSE "vd_fail",
                         !.snap = CHOOSE e \in found : TRUE]]
    /\ UNCHANGED <<db, notifications>>
    /\ UNCHANGED <<life, calc>>

\* the gateway says the payment failed: the transaction is saved as failed
VdFail(r) ==
    /\ req[r].pc = "vd_fail"
    /\ transactions' = WithStatus(req[r].snap.reference, "failed")
    /\ req' = Finish(r, "VerificationFailed")
    /\ UNCHANGED <<walletBalance, tournaments, notifications>>
    /\ UNCHANGED <<life, calc>>

\* the gateway says success: the transaction is saved as completed, whatever
\* its status was
VdMark(r) ==
    /\ req[r].pc = "vd_mark"
    /\ transactions' = WithStatus(req[r].snap.reference, "completed")
    /\ req' = [req EXCEPT ![r].pc = "vd_read"]
    /\ UNCHANGED <<walletBalance, tournaments, notifications>>
    /\ UNCHANGED <<life, calc>>

\* User.findById(transaction.user), and the amount added to the balance read
VdRead(r) ==
    /\ req[r].pc = "vd_read"
    /\ req' = [req EXCEPT
                 ![r].pc = "vd_credit",
                 ![r].actor = req[r].snap.user,
                 ![r].amount = req[r].snap.amount,
                 ![r].bal = walletBalance[req[r].snap.user]
                            + req[r].snap.amount]
    /\ UNCHANGED <<db, notifications>>
    /\ UNCHANGED <<life, calc>>

\* user.save()
VdCredit(r) ==
    /\ req[r].pc = "vd_credit"
    /\ walletBalance' = [walletBalance EXCEPT ![req[r].actor] = req[r].bal]
    /\ req' = [req EXCEPT
                 ![r] = [Answered("verify", 0, "OK") EXCEPT
                           !.actor = req[r].actor, !.amount = req[r].amount,
                           !.snap = req[r].snap]]
    /\ UNCHANGED <<tournaments, transactions, notifications>>
    /\ UNCHANGED <<life, calc>>

\* "p1" has initiated a deposit of 100 and "p2" one of 50; neither has been
\* verified yet
InitDeposit ==
    /\ walletBalance = [u \in Users |-> 0]
    /\ tournaments = (1 :> RunningTournament("completed"))
    /\ transactions = {DepositEntry("p1", 100, "pending", <<0, 1>>),
                       DepositEntry("p2", 50, "pending", <<0, 2>>)}
    /\ notifications = {}
    /\ req = [r \in Reqs |-> IdleReq]
    /\ clock = ClockAt(MinDuration)
    /\ schedule = (1 :> PastSchedule)
    /\ timers = {}
    /\ reminders = NoReminders
    /\ notifier = "up"
    /\ calc = NoCalc

NextDeposit ==
    \E r \in Reqs :
        \/ VdVerify(r)
        \/ VdFail(r)
        \/ VdMark(r)
        \/ VdRead(r)
        \/ VdCredit(r)

SpecDeposit == InitDeposit /\ [][NextDeposit]_vars

(***************************************************************************)
(* Withdrawals and the gateway's transfer webhooks: initiateWithdrawal,    *)
(* handleTransferSuccess and handleTransferFailed, in any interleaving.    *)
(***************************************************************************)
\* data.reference of a webhook: that of a withdrawal in the ledger, or one
\* that is unknown
TransferReferences ==
    {e.reference : e \in {w \in transactions : w.type = "withdrawal"}}
        \cup {<<0, 9>>}

\* Transaction.findOne({reference, type: 'withdrawal'})
FindWithdrawal(ref) ==
    {e \in transactions : e.reference = ref /\ e.type = "withdrawal"}

\* a webhook handler that has found its withdrawal
FoundWithdrawal(op, pc, e) ==
    [IdleReq EXCEPT !.op = op, !.pc = pc, !.tid = 0, !.snap = e,
                    !.actor = e.user, !.amount = e.amount]

\* transfer.failed: the withdrawal is looked up; one that is already failed is
\* left alone
TfFind(r) ==
    /\ Arrives(r)
    /\ \E ref \in TransferReferences :
        LET found == FindWithdrawal(ref)
            e == CHOOSE w \in found : TRUE
        IN  req' =
              IF found = {}
              THEN [req EXCEPT ![r] = Answered("transferFailed", 0, "NotFound")]
              ELSE IF e.status = "failed"
              THEN [req EXCEPT ![r] = Answered("transferFailed", 0, "Ignored")]
              ELSE [req EXCEPT
                      ![r] = FoundWithdrawal("transferFailed", "tf_mark", e)]
    /\ UNCHANGED <<db, notifications>>
    /\ UNCHANGED <<life, calc>>

\* transfer.failed: the withdrawal is saved as failed
TfMark(r) ==
    /\ req[r].pc = "tf_mark"
    /\ transactions' = WithStatus(req[r].snap.reference, "failed")
    /\ req' = [req EXCEPT ![r].pc = "tf_read"]
    /\ UNCHANGED <<walletBalance, tournaments, notifications>>
    /\ UNCHANGED <<life, calc>>

\* transfer.failed: User.findById, and the amount added to the balance read
TfRead(r) ==
    /\ req[r].pc = "tf_read"
    /\ req' = [req EXCEPT
                 ![r].pc = "tf_refund",
                 ![r].bal = walletBalance[req[r].actor] + req[r].amount]
    /\ UNCHANGED <<db, notifications>>
    /\ UNCHANGED <<life, calc>>

\* transfer.failed: userToRefund.save()
TfRefund(r) ==
    /\ req[r].pc = "tf_refund"
    /\ walletBalance' = [walletBalance EXCEPT ![req[r].actor] = req[r].bal]
    /\ req' = [req EXCEPT ![r].pc = "done", ![r].response = "Refunded"]
    /\ UNCHANGED <<tournaments, transactions, notifications>>
    /\ UNCHANGED <<life, calc>>

\* transfer.success: the withdrawal is looked up; one that is already
\* completed is left alone
TsFind(r) ==
    /\ Arrives(r)
    /\ \E ref \in TransferReferences :
        LET found == FindWithdrawal(ref)
            e == CHOOSE w \in found : TRUE
        IN  req' =
              IF found = {}
              THEN [req EXCEPT ![r] = Answered("transferSuccess", 0, "NotFound")]
              ELSE IF e.status = "completed"
              THEN [req EXCEPT ![r] = Answered("transferSuccess", 0, "Ignored")]
              ELSE [req EXCEPT
                      ![r] = FoundWithdrawal("transferSuccess", "ts_mark", e)]
    /\ UNCHANGED <<db, notifications>>
    /\ UNCHANGED <<life, calc>>

\* transfer.success: the withdrawal is saved as completed
TsMark(r) ==
    /\ req[r].pc = "ts_mark"
    /\ transactions' = WithStatus(req[r].snap.reference, "completed")
    /\ req' = [req EXCEPT ![r].pc = "done", ![r].response = "OK"]
    /\ UNCHANGED <<walletBalance, tournaments, notifications>>
    /\ UNCHANGED <<life, calc>>

\* "p2" has withdrawn 100 of 150 and the transfer waits for its OTP; "org"
\* has withdrawn 100 of 250 and the transfer was accepted by the gateway
InitRefund ==
    /\ walletBalance = [WalletInitBalance EXCEPT !["p2"] = 50]
    /\ tournaments = (1 :> OpenTournament)
    /\ transactions = {WithdrawalEntry("p2", 100, "pending", <<0, 1>>),
                       WithdrawalEntry("org", 100, "completed", <<0, 2>>)}
    /\ notifications = {}
    /\ req = [r \in Reqs |-> IdleReq]
    /\ clock = ClockAt(MinDuration)
    /\ schedule = (1 :> PastSchedule)
    /\ timers = {}
    /\ reminders = NoReminders
    /\ notifier = "up"
    /\ calc = NoCalc

NextRefund ==
    \E r \in Reqs :
        \/ WdRead(r)
        \/ WdCreate(r)
        \/ WdDebit(r)
        \/ WdGateway(r)
        \/ TfFind(r)
        \/ TfMark(r)
        \/ TfRead(r)
        \/ TfRefund(r)
        \/ TsFind(r)
        \/ TsMark(r)

SpecRefund == InitRefund /\ [][NextRefund]_vars

(***************************************************************************)
(* The payout calculators on their own: calculatePrizeDistribution and the *)
(* amount distributeTournamentPrizes resolves for one requested line, over *)
(* fixed prize structures and ranked results.                              *)
(***************************************************************************)
MaxRanks == 6         \* entries of prizes.fixed.amounts, and ranked results

\* the prize of rank i, where the structure has one
PrizeOfRank(i) == 100 - 10 * i

\* prizes.fixed.amounts as stored: entry i is PrizeOfRank(i) or 0
PayoutAmountsInputs ==
    UNION {{[i \in 1..n |-> IF i \in S THEN PrizeOfRank(i) ELSE 0] :
                S \in SUBSET (1..n)} : n \in 0..MaxRanks}

\* prizes.fixed.additional: no entry, or one for the first or third position
PayoutAdditionalInputs == SeqsUpTo([position : {1, 3}, amount : {0, 25}], 1)

RankedResults(m) ==
    [k \in 1..m |->
        [userId |-> IF k % 2 = 1 THEN "p1" ELSE "p2", position |-> k]]

Reverse(s) == [i \in DOMAIN s |-> s[Len(s) + 1 - i]]

\* results ranked 1..m, submitted best first or best last
PayoutResultsInputs ==
    UNION {{RankedResults(m), Reverse(RankedResults(m))} : m \in 0..MaxRanks}

PayoutTournament ==
    [prizeType |-> "fixed",
     prizes |-> [amounts |-> calc.amounts, additional |-> calc.additional]]

\* calculatePrizeDistribution(tournament, results)
Calculate ==
    /\ calc.phase = "input"
    /\ calc' = [calc EXCEPT
                  !.phase = "calculated",
                  !.lines = calculatePrizeDistribution(PayoutTournament,
                                                       calc.results)]
    /\ UNCHANGED <<db, notifications, req, life>>

\* distributeTournamentPrizes: the prize of one line of req.body
ResolvePrize ==
    /\ calc.phase = "input"
    /\ \E position \in PositionLabels :
          calc' = [calc EXCEPT
                     !.phase = "resolved",
                     !.position = position,
                     !.amount = PrizeAmount(PayoutTournament,
                                    [position |-> position, customAmount |-> 0])]
    /\ UNCHANGED <<db, notifications, req, life>>

\* the label under which a request names position k
PositionLabel(k) ==
    CASE k = 1 -> "1st" [] k = 2 -> "2nd" [] k = 3 -> "3rd" [] k = 4 -> "4th"
      [] k = 5 -> "5th" [] k = 6 -> "6th" [] OTHER -> "7th"

\* req.body.prizeDistribution with the users and positions of the results
\* and no customAmount
AsDistribution(results) ==
    [k \in DOMAIN results |->
        [userId |-> results[k].userId,
         position |-> PositionLabel(results[k].position),
         customAmount |-> 0]]

\* distributeTournamentPrizes: calculatedPrizes for the assignments that
\* calculatePrizeDistribution was given
ResolveResults ==
    /\ calc.phase = "calculated"
    /\ calc' = [calc EXCEPT
                  !.phase = "compared",
                  !.resolved = CalculatedPrizes(PayoutTournament,
                                                AsDistribution(calc.results))]
    /\ UNCHANGED <<db, notifications, req, life>>

InitPayout ==
    /\ walletBalance = [u \in Users |-> 0]
    /\ tournaments = (1 :> RunningTournament("completed"))
    /\ transactions = {FundingEntry("org", 1, 150, <<0, 0>>)}
    /\ notifications = {}
    /\ req = [r \in Reqs |-> IdleReq]
    /\ clock = ClockAt(MinDuration)
    /\ schedule = (1 :> PastSchedule)
    /\ timers = {}
    /\ reminders = NoReminders
    /\ notifier = "up"
    /\ \E amounts \in PayoutAmountsInputs, additional \in PayoutAdditionalInputs,
          results \in PayoutResultsInputs :
          calc = [phase |-> "input", amounts |-> amounts,
                  additional |-> additional, results |-> results,
                  lines |-> <<>>, resolved |-> <<>>, position |-> "1st",
                  amount |-> 0]

NextPayout ==
    \/ Calculate
    \/ ResolvePrize
    \/ ResolveResults

SpecPayout == InitPayout /\ [][NextPayout]_vars

(***************************************************************************)
(* The payout calculators under the percentage prize type.                 *)
(***************************************************************************)
\* prizes.percentage.basePrizePool
PoolInputs == {1, 100, 1000}

\* prizes.percentage["1st"], ["2nd"]: 0.4 %, 12.345 %, 33.333 %, 50 %
PercentInputs == {0, 400, 12345, 33333, 50000}

\* prizes.percentage["3rd"] .. ["5th"]: nothing or 10 %
LowerPercentInputs == {0, 10000}

PercentagesInputs ==
    {[l \in Range(RankLabels) |->
        IF l = "1st" THEN a ELSE IF l = "2nd" THEN b ELSE low[l]] :
        a \in PercentInputs, b \in PercentInputs,
        low \in [{"3rd", "4th", "5th"} -> LowerPercentInputs]}

PercentageTournament ==
    [prizeType |-> "percentage",
     prizes |-> [basePrizePool |-> calc.pool, pct |-> calc.pct]]

\* calculatePrizeDistribution(tournament, results), prizeType percentage
CalculatePercentage ==
    /\ calc.phase = "percentages"
    /\ calc' = [calc EXCEPT
                  !.phase = "percentages_calculated",
                  !.lines = calculatePrizeDistribution(PercentageTournament,
                                                       calc.results)]
    /\ UNCHANGED <<db, notifications, req, life>>

\* distributeTournamentPrizes: the prize of one line of req.body, prizeType
\* percentage
ResolvePercentage ==
    /\ calc.phase = "percentages"
    /\ \E position \in Range(RankLabels) :
          calc' = [calc EXCEPT
                     !.phase = "percentages_resolved",
                     !.position = position,
                     !.amount = PrizeAmount(PercentageTournament,
                                    [position |-> position, customAmount |-> 0])]
    /\ UNCHANGED <<db, notifications, req, life>>

InitPercentage ==
    /\ walletBalance = [u \in Users |-> 0]
    /\ tournaments = (1 :> RunningTournament("completed"))
    /\ transactions = {FundingEntry("org", 1, 150, <<0, 0>>)}
    /\ notifications = {}
    /\ req = [r \in Reqs |-> IdleReq]
    /\ clock = ClockAt(MinDuration)
    /\ schedule = (1 :> PastSchedule)
    /\ timers = {}
    /\ reminders = NoReminders
    /\ notifier = "up"
    /\ \E pool \in PoolInputs, pct \in PercentagesInputs,
          results \in PayoutResultsInputs :
          calc = [phase |-> "percentages", pool |-> pool, pct |-> pct,
                  results |-> results,
                  lines |-> <<>>, position |-> "1st", amount |-> 0]

NextPercentage ==
    \/ CalculatePercentage
    \/ ResolvePercentage

SpecPercentage == InitPercentage /\ [][NextPercentage]_vars

(***************************************************************************)
(* createTournament on its own: the normalization of req.body.prizes and   *)
(* the total prize pool, for the three prize types.                        *)
(***************************************************************************)
\* the legacy fields '1st'..'5th' of prizes.fixed: any of them, each a
\* number of its own or something that is not a number
LegacyInputs ==
    UNION {[S -> {"number", "junk"}] : S \in SUBSET (1..Len(RankLabels))}

LegacyBody(shape) ==
    [k \in DOMAIN shape |->
        IF shape[k] = "number" THEN RawNum(PrizeOfRank(k)) ELSE RawJunk]

\* prizes.fixed.additional of a request
RawAdditionalInputs ==
    SeqsUpTo([position : {1, 3}, amount : RawAmountInputs], 1)

FixedBodies ==
    {[kind |-> "amounts", amounts |-> a, legacy |-> <<>>, additional |-> add] :
        a \in AmountsInputs, add \in RawAdditionalInputs}
    \cup
    {[kind |-> "legacy", amounts |-> <<>>, legacy |-> LegacyBody(shape),
      additional |-> add] :
        shape \in LegacyInputs, add \in RawAdditionalInputs}

PercentageBodies == [basePrizePool : RawAmountInputs]

SpecialBodies ==
    [isFixed : {"true", "false", "absent"},
     basePrizePool : RawAmountInputs,
     specialPrizes :
        SeqsUpTo([amount : RawAmountInputs, isPercentage : BOOLEAN], MaxPrizes)]

\* what the handler does with the pool: the entry fee check, and the amount
\* it takes from the organizer's wallet when the check passes
Pooled(normalized, pool) ==
    [calc EXCEPT !.phase = "pooled", !.normalized = normalized, !.pool = pool,
                 !.rejected = EntryFeeExceedsPool(calc.fee, pool),
                 !.debit = IF EntryFeeExceedsPool(calc.fee, pool) THEN 0
                           ELSE pool]

\* createTournament, prizeType "fixed": normalizedPrizes and totalPrizePool
PoolFixed ==
    /\ calc.phase = "body"
    /\ calc.prizeType = "fixed"
    /\ LET normalized == NormalizeFixedBody(calc.body)
       IN  calc' = Pooled(normalized, TotalPrizePool(normalized))
    /\ UNCHANGED <<db, notifications, req, life>>

\* createTournament, prizeType "percentage"
PoolPercentage ==
    /\ calc.phase = "body"
    /\ calc.prizeType = "percentage"
    /\ LET normalized == NormalizePercentageBody(calc.body)
       IN  calc' = Pooled(normalized, normalized.basePrizePool)
    /\ UNCHANGED <<db, notifications, req, life>>

\* createTournament, prizeType "special"
PoolSpecial ==
    /\ calc.phase = "body"
    /\ calc.prizeType = "special"
    /\ LET normalized == NormalizeSpecialBody(calc.body)
       IN  calc' = Pooled(normalized, SpecialPrizePool(normalized))
    /\ UNCHANGED <<db, notifications, req, life>>

InitPrizes ==
    /\ walletBalance = [u \in Users |-> 0]
    /\ tournaments = (1 :> RunningTournament("completed"))
    /\ transactions = {FundingEntry("org", 1, 150, <<0, 0>>)}
    /\ notifications = {}
    /\ req = [r \in Reqs |-> IdleReq]
    /\ clock = ClockAt(MinDuration)
    /\ schedule = (1 :> PastSchedule)
    /\ timers = {}
    /\ reminders = NoReminders
    /\ notifier = "up"
    /\ \E prizeType \in {"fixed", "percentage", "special"} :
       \E body \in CASE prizeType = "fixed" -> FixedBodies
                     [] prizeType = "percentage" -> PercentageBodies
                     [] OTHER -> SpecialBodies :
       \E rawFee \in EntryFeeInputs :
          calc = [phase |-> "body", prizeType |-> prizeType, body |-> body,
                  fee |-> ParseFloatOrZero(rawFee),
                  normalized |-> <<>>, pool |-> 0,
                  rejected |-> FALSE, debit |-> 0]

NextPrizes ==
    \/ PoolFixed
    \/ PoolPercentage
    \/ PoolSpecial

SpecPrizes == InitPrizes /\ [][NextPrizes]_vars

(***************************************************************************)
(* The distribution with the notification service up or down.              *)
(***************************************************************************)
InitNotify ==
    /\ walletBalance = [u \in Users |-> 0]
    /\ tournaments = (1 :> RunningTournament("completed"))
    /\ transactions = {FundingEntry("org", 1, 150, <<0, 0>>)}
    /\ notifications = {}
    /\ req = [r \in Reqs |-> IdleReq]
    /\ clock = ClockAt(MinDuration)
    /\ schedule = (1 :> PastSchedule)
    /\ timers = {}
    /\ reminders = NoReminders
    /\ notifier \in {"up", "down"}
    /\ calc = NoCalc

NextNotify ==
    \E r \in Reqs :
        \/ DistFind(r)
        \/ DistCheck(r)
        \/ DistTxn(r)

SpecNotify == InitNotify /\ [][NextNotify]_vars

(***************************************************************************)
(* scripts/migrateFixedPrizes.js, and the variant of it that also migrates *)
(* the percentages: one stored tournament, its prizes.fixed before and     *)
(* after the run.                                                          *)
(***************************************************************************)
\* no legacy key
NoLegacy == LegacyBody(<<>>)

\* prizes.fixed.amounts of a stored document, where it has one
StoredAmountsInputs == {<<>>, <<100, 50>>}

\* prizes.fixed of a stored tournament: present or not, with or without an
\* amounts array, with any of the legacy keys
StoredFixedInputs ==
    {[exists |-> FALSE, hasAmounts |-> FALSE, amounts |-> <<>>,
      legacy |-> NoLegacy]}
    \cup
    {[exists |-> TRUE, hasAmounts |-> FALSE, amounts |-> <<>>,
      legacy |-> LegacyBody(shape)] : shape \in LegacyInputs}
    \cup
    {[exists |-> TRUE, hasAmounts |-> TRUE, amounts |-> a,
      legacy |-> LegacyBody(shape)] :
        a \in StoredAmountsInputs, shape \in LegacyInputs}

\* prizes.percentage of a stored tournament: absent, or in the legacy shape,
\* or with an amounts array (with or without legacy keys left beside it)
StoredPercentageInputs ==
    {[exists |-> FALSE, hasAmounts |-> FALSE, amounts |-> <<>>,
      legacy |-> NoLegacy]}
    \cup
    {[exists |-> TRUE, hasAmounts |-> h, amounts |-> <<>>,
      legacy |-> LegacyBody(shape)] :
        h \in BOOLEAN,
        shape \in {sh \in LegacyInputs : DOMAIN sh \in {{}, {1, 2}}}}

MaxRuns == 2          \* runs of the migration over the same collection

\* newAmounts: labels.map, the value of the key or 0
MigratedAmounts(fixed) ==
    [k \in 1..Len(RankLabels) |->
        IF k \in DOMAIN fixed.legacy THEN ParseFloatOrZero(fixed.legacy[k])
        ELSE 0]

\* every document taken as holding legacy keys
LegacyKeysExistAlways(fixed) == TRUE

\* legacyKeysExist
LegacyKeysExist(fixed) == DOMAIN fixed.legacy # {}

\* updateOne: $set prizes.fixed.amounts, $unset the five legacy keys
MigrationUpdate(stored, newAmounts) ==
    [stored EXCEPT !.hasAmounts = TRUE, !.amounts = newAmounts,
                   !.legacy = NoLegacy]

\* Tournament.find({'prizes.fixed': {$exists: true}}).lean()
MigrateFind ==
    /\ \/ calc.phase = "stored"
       \/ calc.phase = "migrated" /\ calc.run < MaxRuns
    /\ calc' = IF calc.doc.exists
               THEN [calc EXCEPT !.phase = "found", !.found = calc.doc,
                                 !.run = @ + 1]
               ELSE [calc EXCEPT !.phase = "migrated", !.run = @ + 1]
    /\ UNCHANGED <<db, notifications, req, life>>

\* scripts/migrateFixedPrizes.js, one round of the loop: a document with an
\* amounts array is taken as migrated and left alone
MigrateDocument ==
    /\ calc.phase = "found"
    /\ calc.script = "migrateFixedPrizes"
    /\ calc' =
         [calc EXCEPT
            !.phase = "migrated",
            !.doc = IF calc.found.hasAmounts \/ ~LegacyKeysExist(calc.found)
                    THEN @
                    ELSE MigrationUpdate(@, MigratedAmounts(calc.found))]
    /\ UNCHANGED <<db, notifications, req, life>>

\* the variant: the amounts are rebuilt whenever a legacy key exists, and
\* prizes.percentage is migrated in the same update when it has no amounts
\* array
MigrateDocumentVariant ==
    /\ calc.phase = "found"
    /\ calc.script = "variant"
    /\ LET pct == calc.found.pct
           fixedSet == IF LegacyKeysExist(calc.found)
                       THEN MigrationUpdate(calc.doc,
                                            MigratedAmounts(calc.found))
                       ELSE calc.doc
           pctSet == IF pct.exists /\ ~pct.hasAmounts /\ LegacyKeysExist(pct)
                     THEN MigrationUpdate(calc.doc.pct, MigratedAmounts(pct))
                     ELSE calc.doc.pct
       IN  calc' = [calc EXCEPT !.phase = "migrated",
                                !.doc = [fixedSet EXCEPT !.pct = pctSet]]
    /\ UNCHANGED <<db, notifications, req, life>>

InitMigrate ==
    /\ walletBalance = [u \in Users |-> 0]
    /\ tournaments = (1 :> RunningTournament("completed"))
    /\ transactions = {FundingEntry("org", 1, 150, <<0, 0>>)}
    /\ notifications = {}
    /\ req = [r \in Reqs |-> IdleReq]
    /\ clock = ClockAt(MinDuration)
    /\ schedule = (1 :> PastSchedule)
    /\ timers = {}
    /\ reminders = NoReminders
    /\ notifier = "up"
    /\ \E fixed \in StoredFixedInputs, pct \in StoredPercentageInputs,
          script \in {"migrateFixedPrizes", "variant"} :
          LET stored == fixed @@ [pct |-> pct]
          IN  calc = [phase |-> "stored", script |-> script, run |-> 0,
                      before |-> stored, doc |-> stored, found |-> stored]

NextMigrate ==
    \/ MigrateFind
    \/ MigrateDocument
    \/ MigrateDocumentVariant

SpecMigrate == InitMigrate /\ [][NextMigrate]_vars

(***************************************************************************)
(* Properties of the prize distribution.                                   *)
(***************************************************************************)
Succeeded(r, op) ==
    req[r].op = op /\ req[r].pc = "done" /\ req[r].response = "OK"

PrizeTypes == {"prize_payout", "tournament_prize"}

\* the completed ledger entries that record a prize credit of tournament tid
PrizeEntries(tid) ==
    {e \in transactions :
        e.tournament = tid /\ e.type \in PrizeTypes /\ e.status = "completed"}

\* the ledger entries request r has written
EntriesOf(r) == {e \in transactions : e.reference[1] = r}

\* the step of request r from position `from` to its answer
Answers(r, from) == req[r].pc = from /\ req'[r].pc = "done"

\* the step credits each line of r's calculated prizes once and records it
PaysEveryLine(r) ==
    /\ \A u \in Users :
          walletBalance'[u] = walletBalance[u] + CreditFor(u, req[r].lines)
    /\ transactions' \ transactions =
          {PrizePayoutEntry(req[r].tid, req[r].lines[i], <<r, i>>) :
              i \in DOMAIN req[r].lines}
    /\ Cardinality(transactions' \ transactions) = Len(req[r].lines)
    /\ tournaments'[req[r].tid].prizesDistributed

\* C1: two distributeTournamentPrizes calls in sequence on a completed
\* tournament: the call that succeeds credits every payout line exactly once,
\* and a call that reaches its replay check after a call on the same
\* tournament has succeeded is answered "already distributed" and leaves the
\* balances, the ledger and the tournament as they were.
C1_SecondCallRejected ==
    [][\A r \in Reqs :
          /\ (Answers(r, "dist_txn") /\ req'[r].response = "OK")
                => PaysEveryLine(r)
          /\ (/\ req[r].pc = "dist_check"
              /\ req'[r].pc # "dist_check"
              /\ \E q \in Reqs \ {r} :
                    Succeeded(q, "distribute") /\ req[q].tid = req[r].tid)
                => /\ req'[r].pc = "done"
                   /\ req'[r].response = "AlreadyDistributed"
                   /\ UNCHANGED <<db, notifications>>
          /\ (/\ Arrives(r)
              /\ req'[r].op = "distribute"
              /\ \E q \in Reqs \ {r} :
                    Succeeded(q, "distribute") /\ req[q].tid = req'[r].tid)
                => req'[r].response # "NotCompleted"]_vars

C1_Witness ==
    \E q, r \in Reqs :
        /\ Succeeded(q, "distribute")
        /\ req[r].op = "distribute"
        /\ req[r].response = "AlreadyDistributed"
        /\ req[r].tid = req[q].tid
        /\ \E u \in Users : walletBalance[u] > 0

\* C2: of two concurrent distributeTournamentPrizes calls on one tournament
\* at most one succeeds, so the prizes are never credited by both.
C2_OnlyOneDistributionSucceeds ==
    \A q, r \in Reqs :
        (q # r /\ req[q].tid = req[r].tid)
            => ~(Succeeded(q, "distribute") /\ Succeeded(r, "distribute"))

\* C3: over all calls of submitTournamentResults and
\* distributeTournamentPrizes on a tournament, at most one call credits prizes.
C3_AtMostOneCallPays ==
    \A tid \in DOMAIN tournaments :
        Cardinality({e.reference[1] : e \in PrizeEntries(tid)}) <= 1

\* C4: the transaction of distributeTournamentPrizes is all or nothing: a call
\* that fails inside it leaves every balance, the ledger and the tournament's
\* distributed flag as they were; a call that succeeds has credited every
\* line, written its ledger entry and set the flag.
C4_DistributionAllOrNothing ==
    [][\A r \in Reqs :
          Answers(r, "dist_txn") =>
              IF req'[r].response = "OK"
              THEN PaysEveryLine(r)
              ELSE UNCHANGED db]_vars

\* a distribution failed after its first line had been processed
C4_Witness ==
    \E r \in Reqs :
        /\ req[r].op = "distribute"
        /\ req[r].response = "Error"
        /\ \E n \in notifications : n.reference[1] = r
        /\ EntriesOf(r) = {}

\* C5: the payout of submitTournamentResults is all or nothing: when the call
\* returns, either every computed line was credited and recorded and the
\* tournament is completed with the results stored, or nothing was credited
\* and no prize entry was written.
C5_SubmitAllOrNothing ==
    [][\A r \in Reqs :
          Answers(r, "submit_pay") =>
              \/ /\ req[r].paid = Len(req[r].lines)
                 /\ Cardinality(EntriesOf(r)') = Len(req[r].lines)
                 /\ tournaments'[req[r].tid].status = "completed"
                 /\ tournaments'[req[r].tid].results = req[r].input
              \/ /\ req[r].paid = 0
                 /\ walletBalance' = walletBalance
                 /\ EntriesOf(r)' = {}]_vars

\* C6: the distributed flag and the ledger agree: prizesDistributed is true
\* exactly when a completed prize entry of the tournament exists.
C6_FlagAgreesWithLedger ==
    \A tid \in DOMAIN tournaments :
        tournaments[tid].prizesDistributed <=> PrizeEntries(tid) # {}

Rejections ==
    {"BodyInvalid", "NotFound", "NotOrganizer", "NotCompleted",
     "AlreadyDistributed", "NotParticipant", "InvalidAmount"}

\* C7: a distributeTournamentPrizes call that violates a precondition changes
\* no balance, writes no ledger entry and does not set the distributed flag.
C7_RejectionChangesNothing ==
    [][\A r \in Reqs :
          (/\ req[r].pc # "done"
           /\ req'[r].pc = "done"
           /\ req'[r].op = "distribute"
           /\ req'[r].response \in Rejections)
              => UNCHANGED <<db, notifications>>]_vars

C7_Witness ==
    \E q, r \in Reqs :
        /\ req[q].op = "distribute" /\ req[q].response = "InvalidAmount"
        /\ req[r].op = "distribute" /\ req[r].response = "NotParticipant"

(***************************************************************************)
(* Properties of the wallet.                                               *)
(***************************************************************************)
\* C8: pool funding and tournament persistence are atomic at creation: on
\* the step on which a createTournament call answers, a call that has saved a
\* debit of a positive pool has stored its tournament, and a tournament is
\* stored only by a call that has saved its debit.
C8_DebitIffPersisted ==
    [][\A r \in Reqs :
          (/\ req[r].op = "create"
           /\ req[r].pc \in {"create_debit", "create_persist"}
           /\ req'[r].pc = "done")
              => LET persisted == DOMAIN tournaments' # DOMAIN tournaments
                 IN  /\ (req[r].paid = 1 /\ req[r].amount > 0) => persisted
                     /\ persisted => req[r].paid = 1]_vars

\* C9: no user's wallet balance is ever negative.
C9_BalancesNeverNegative == \A u \in Users : walletBalance[u] >= 0

\* a user who started with money has spent all of it in two debits
C9_Witness ==
    \E u \in Users :
        /\ WalletInitBalance[u] > 0
        /\ walletBalance[u] = 0
        /\ \A r \in Reqs :
              /\ req[r].actor = u
              /\ req[r].response = "OK"
              /\ req[r].op \in {"create", "register", "withdraw"}
              /\ req[r].amount > 0

RECURSIVE SumOver(_, _)
SumOver(f, S) ==
    IF S = {} THEN 0
    ELSE LET x == CHOOSE y \in S : TRUE IN f[x] + SumOver(f, S \ {x})

\* what the calls that reported success say they took from user u
ReportedDebits(u) ==
    SumOver([r \in Reqs |->
                IF /\ req[r].response = "OK"
                   /\ req[r].op \in {"create", "register", "withdraw"}
                   /\ req[r].actor = u
                THEN req[r].amount ELSE 0], Reqs)

\* what the calls that reported success say they credited to user u
ReportedCredits(u) ==
    SumOver([r \in Reqs |->
                IF /\ req[r].response = "OK"
                   /\ req[r].op \in {"distribute", "submit"}
                THEN CreditFor(u, req[r].lines) ELSE 0], Reqs)

\* C10: balance updates are never lost: once every call has answered, and
\* each of them reported success, every balance is the initial balance plus
\* the credits minus the debits of these calls.
C10_NoLostUpdate ==
    (\A r \in Reqs : req[r].pc = "done" /\ req[r].response = "OK")
        => \A u \in Users :
              walletBalance[u] =
                  WalletInitBalance[u] + ReportedCredits(u) - ReportedDebits(u)

(***************************************************************************)
(* Properties of tournament creation.                                      *)
(***************************************************************************)
\* C11: every persisted tournament has an entry fee that does not exceed its
\* total committed prize pool: a creation whose fee is above the pool stores
\* nothing.
C11_EntryFeeWithinPool ==
    \A tid \in DOMAIN tournaments :
        tournaments[tid].entryFee <= TotalPrizePool(tournaments[tid].prizes)

\* a creation was refused for its fee, another one was stored with a fee
\* equal to its pool
C11_Witness ==
    /\ \E r \in Reqs :
          req[r].op = "create" /\ req[r].response = "EntryFeeExceedsPool"
    /\ \E r \in Reqs :
          /\ Succeeded(r, "create")
          /\ tournaments[req[r].tid].entryFee =
                TotalPrizePool(tournaments[req[r].tid].prizes)
          /\ tournaments[req[r].tid].entryFee > 0

CreatePolicyRejections == {"EntryFeeExceedsPool", "InsufficientFunds"}

\* C12: a createTournament call rejected by a policy check (entry fee above
\* the pool, or wallet funding with a balance below the pool) leaves the
\* balances, the tournaments and the ledger unchanged.
C12_CreateRejectionChangesNothing ==
    [][\A r \in Reqs :
          (/\ req[r].pc # "done"
           /\ req'[r].pc = "done"
           /\ req'[r].op = "create"
           /\ req'[r].response \in CreatePolicyRejections)
              => UNCHANGED db]_vars

\* both rejections have happened
C12_Witness ==
    \E q, r \in Reqs :
        /\ req[q].op = "create" /\ req[q].response = "EntryFeeExceedsPool"
        /\ req[r].op = "create" /\ req[r].response = "InsufficientFunds"
        /\ walletBalance = WalletInitBalance
        /\ DOMAIN tournaments = {1}

(***************************************************************************)
(* Properties of the lifecycle.                                            *)
(***************************************************************************)
\* the status the clock alone gives
TimeStatus(sch, now) ==
    IF now < sch.start THEN "upcoming"
    ELSE IF now < sch.start + sch.duration THEN "active"
    ELSE "completed"

\* a step of the status engine: the status cron job or a read handler
EngineStep == StatusCron \/ GetTournament \/ GetTournaments

\* the step evaluates tournament tid: a read, or a cron run that has found it
Evaluated(tid) ==
    \/ GetTournaments
    \/ GetTournament /\ tournaments' = Refreshed({tid}, clock.now)
    \/ StatusCron /\ tid \in StatusCandidates

\* C13: for a tournament without manual override, the status the status
\* engine writes at instant now is the one the clock gives: upcoming iff
\* now < start, active iff start <= now < start + duration, completed iff
\* now >= start + duration.  An upcoming tournament, and an active one that
\* has started, has that status after every evaluation, and evaluating again
\* with the same inputs reports no change.
C13_StatusFollowsClock ==
    [][\A tid \in DOMAIN tournaments :
          (Evaluated(tid) /\ ~schedule[tid].manualStatusOverride) =>
              LET before == tournaments[tid].status
                  after == tournaments'[tid].status
                  byClock == TimeStatus(schedule[tid], clock.now)
              IN  /\ after # before => after = byClock
                  /\ (\/ before = "upcoming"
                      \/ before = "active" /\ clock.now >= schedule[tid].start)
                        => after = byClock
                  /\ ComputeStatus(after, schedule[tid], clock.now) = after]_vars

\* the status cron job has run at the start instant and the tournament is
\* active
C13_Witness ==
    /\ clock.statusRan
    /\ clock.now = schedule[1].start
    /\ ~schedule[1].manualStatusOverride
    /\ tournaments[1].status = "active"

\* C14: while manualStatusOverride is true, no run of the status cron job
\* and no refresh on read changes the tournament's status.
C14_OverrideFreezesStatus ==
    [][\A tid \in DOMAIN tournaments :
          (EngineStep /\ schedule[tid].manualStatusOverride)
              => tournaments'[tid] = tournaments[tid]]_vars

\* the cron job has run after the start of an overridden tournament, which
\* is still upcoming
C14_Witness ==
    /\ schedule[1].manualStatusOverride
    /\ clock.statusRan
    /\ clock.now >= schedule[1].start
    /\ tournaments[1].status = "upcoming"

AllowedTransitions ==
    {<<"upcoming", "active">>, <<"active", "completed">>,
     <<"upcoming", "completed">>, <<"upcoming", "cancelled">>,
     <<"active", "cancelled">>}

\* C15: a tournament's status changes only along upcoming -> active ->
\* completed, upcoming -> completed, or to cancelled from upcoming or active.
C15_StatusOnlyForward ==
    [][\A tid \in DOMAIN tournaments :
          \/ tournaments'[tid].status = tournaments[tid].status
          \/ <<tournaments[tid].status, tournaments'[tid].status>>
                \in AllowedTransitions]_vars

\* C16: notifyTournamentStartingInFiveMinutes is invoked at most once for a
\* tournament.
C16_ReminderAtMostOnce == \A tid \in TIds : reminders[tid].calls <= 1

\* the tournament of the lifecycle was created at instant 0, more than five
\* minutes before its start
CreatedEarly == schedule[1].start > ReminderLead

\* before its start the tournament is not upcoming, or has no participant
PremiseBroken ==
    /\ clock.now < schedule[1].start
    /\ ~(tournaments[1].status = "upcoming" /\ tournaments[1].participants # <<>>)

\* the reminder went out and the flag is set, in the five minutes before the
\* start
SentInWindow ==
    /\ schedule[1].fiveMinuteReminderSent
    /\ reminders[1].delivered >= 1
    /\ schedule[1].start - ReminderLead <= clock.now
    /\ clock.now < schedule[1].start

C18_TimerCancelled ==
    [][\A tm \in timers \ timers' :
          tournaments[tm.tid].status # "upcoming"
              => reminders'[tm.tid].delivered = reminders[tm.tid].delivered]_vars

(***************************************************************************)
(* Properties of the payout calculators.                                   *)
(***************************************************************************)
\* the result ranked k
Ranked(k) == CHOOSE r \in Range(calc.results) : r.position = k

\* the lines the ordered amounts give: one for every rank up to the shorter
\* of the two lists whose amount is positive
OrderedLines ==
    SelectSeq([k \in 1..Min(Len(calc.results), Len(calc.amounts)) |->
                  [userId |-> Ranked(k).userId, amount |-> calc.amounts[k]]],
              PositiveAmount)

\* C19: with n ordered amounts and m ranked results, the calculator emits a
\* line with amount amounts[k-1] for every rank k in 1..min(m, n) whose
\* amount is positive, and none from the ordered list beyond min(m, n),
\* whatever n is.
C19_OrderedAmountsUncapped ==
    calc.phase = "calculated" =>
        /\ Len(calc.lines) >= Len(OrderedLines)
        /\ SubSeq(calc.lines, 1, Len(OrderedLines)) = OrderedLines
        /\ \A i \in DOMAIN calc.lines :
              i > Len(OrderedLines) =>
                  \E j \in DOMAIN calc.additional :
                      calc.lines[i].amount = calc.additional[j].amount

FromAdditional(line) == line.amount = 25

\* the lines the additional entries give: one for every entry with a
\* positive amount whose position some result has
AdditionalLines ==
    SelectSeq([j \in DOMAIN calc.additional |->
                  IF calc.additional[j].position <= Len(calc.results)
                  THEN [userId |-> Ranked(calc.additional[j].position).userId,
                        amount |-> calc.additional[j].amount]
                  ELSE [userId |-> "x", amount |-> 0]],
              PositiveAmount)

\* calculatePrizeDistribution emits the additional lines next to the ordered
\* ones
CalculatorAugments ==
    calc.phase = "calculated" =>
        SelectSeq(calc.lines, FromAdditional) = AdditionalLines

\* C20: an additional entry whose position a result has yields its amount in
\* addition to what the ordered amounts give that rank: the prize resolved
\* for a position is the ordered amount plus the additional one.
C20_AdditionalAugments ==
    calc.phase = "resolved" =>
        calc.amount = AmountAt(calc.amounts, PosNum(calc.position))
                      + AdditionalFor(calc.additional, PosNum(calc.position))

(***************************************************************************)
(* Properties of the percentage payouts.                                   *)
(***************************************************************************)
WholeHundredths(amount) == amount % Hundredth = 0

\* pool * percentage / 100 to two decimal places, halves upwards
RoundedShare(position) ==
    LET exact == calc.pool * calc.pct[position]
        down == exact - (exact % Hundredth)
    IN  IF 2 * (exact % Hundredth) >= Hundredth THEN down + Hundredth ELSE down

\* C21: every amount paid under the percentage prize type is basePrizePool x
\* percentage / 100 rounded half-up to two decimal places: the lines of the
\* calculator for the first five ranks present, and the prize the
\* distribution resolves for a position.
C21_PercentageRounded ==
    /\ calc.phase = "percentages_calculated" =>
          \A i \in DOMAIN calc.lines :
              /\ WholeHundredths(calc.lines[i].amount)
              /\ \E k \in 1..Min(Len(calc.results), Len(RankLabels)) :
                    calc.lines[i].amount = RoundedShare(RankLabels[k])
    /\ calc.phase = "percentages_resolved" =>
          calc.amount = RoundedShare(calc.position)

\* C25: every payout line the calculator produces has an amount > 0.
C25_PayoutLinesPositive ==
    calc.phase = "percentages_calculated" =>
        \A i \in DOMAIN calc.lines : calc.lines[i].amount > 0

(***************************************************************************)
(* Properties of the normalization and of the pool.                        *)
(***************************************************************************)
\* the sum of f over the indices in S
RECURSIVE SumAt(_, _)
SumAt(f, S) ==
    IF S = {} THEN 0
    ELSE LET i == CHOOSE j \in S : TRUE IN f[i] + SumAt(f, S \ {i})

AmountsOf(s) == [i \in DOMAIN s |-> s[i].amount]

\* C22: the total prize pool computed at creation is, for fixed, the sum of
\* all amounts plus the sum of all additional amounts; for percentage,
\* basePrizePool; for special, the sum of the specialPrizes amounts when
\* isFixed is true and basePrizePool otherwise.  That value is the one the
\* entry fee is compared with and the one taken from the organizer.
C22_TotalPrizePool ==
    calc.phase = "pooled" =>
        LET n == calc.normalized
            committed ==
              CASE calc.prizeType = "fixed" ->
                      SumAt(n.amounts, DOMAIN n.amounts)
                      + SumAt(AmountsOf(n.additional), DOMAIN n.additional)
                [] calc.prizeType = "percentage" -> n.basePrizePool
                [] OTHER ->
                      IF n.isFixed
                      THEN SumAt(AmountsOf(n.specialPrizes),
                                 DOMAIN n.specialPrizes)
                      ELSE n.basePrizePool
        IN  /\ calc.pool = committed
            /\ calc.rejected <=> calc.fee > committed
            /\ ~calc.rejected => calc.debit = committed

\* a fixed structure whose pool has a part from the ordered amounts and a
\* part from the additional ones
C22_Witness ==
    /\ calc.phase = "pooled"
    /\ calc.prizeType = "fixed"
    /\ calc.normalized.amounts = <<100, 100>>
    /\ calc.normalized.additional # <<>>
    /\ calc.pool = 300
    /\ calc.debit = 300

\* the legacy key that comes i-th in rank order
KeyAt(legacy, i) ==
    CHOOSE k \in DOMAIN legacy :
        Cardinality({j \in DOMAIN legacy : j <= k}) = i

\* C23: an amounts array is kept at its full length; legacy per-rank fields
\* give exactly the supplied ranks' values in rank order, as many entries as
\* there are legacy keys, never padded to five.
C23_NormalizedLength ==
    (calc.phase = "pooled" /\ calc.prizeType = "fixed") =>
        LET amounts == calc.normalized.amounts
            body == calc.body
        IN  IF body.kind = "amounts"
            THEN /\ Len(amounts) = Len(body.amounts)
                 /\ \A i \in DOMAIN amounts :
                       amounts[i] = ParseFloatOrZero(body.amounts[i])
            ELSE /\ Len(amounts) = Cardinality(DOMAIN body.legacy)
                 /\ \A i \in DOMAIN amounts :
                       amounts[i] =
                         ParseFloatOrZero(body.legacy[KeyAt(body.legacy, i)])

\* only '1st' and '3rd' were supplied: two entries, in that order
C23_Witness ==
    /\ calc.phase = "pooled"
    /\ calc.prizeType = "fixed"
    /\ calc.body.kind = "legacy"
    /\ DOMAIN calc.body.legacy = {1, 3}
    /\ calc.normalized.amounts = <<PrizeOfRank(1), PrizeOfRank(3)>>

\* C24: after normalization every element of the fixed amounts and every
\* additional amount is a non-negative number, and the pool is >= 0.
C24_AmountsNonNegative ==
    (calc.phase = "pooled" /\ calc.prizeType = "fixed") =>
        /\ \A i \in DOMAIN calc.normalized.amounts :
              calc.normalized.amounts[i] >= 0
        /\ \A i \in DOMAIN calc.normalized.additional :
              calc.normalized.additional[i].amount >= 0
        /\ calc.pool >= 0

(***************************************************************************)
(* Properties of the stored results and of the roster.                     *)
(***************************************************************************)
\* C26: once prizes have been distributed for a tournament, no later
\* operation changes its stored results.
C26_ResultsFrozenAfterDistribution ==
    [][\A tid \in DOMAIN tournaments :
          tournaments[tid].prizesDistributed
              => tournaments'[tid].results = tournaments[tid].results]_vars

\* C27: a tournament's participants list never holds the same user twice.
C27_ParticipantsDistinct ==
    \A tid \in DOMAIN tournaments :
        LET roster == tournaments[tid].participants
        IN  \A i, j \in DOMAIN roster : roster[i] = roster[j] => i = j

\* C28: when notifyTournamentWinner fails for a payout line and no database
\* operation does, distributeTournamentPrizes still commits every credit,
\* every ledger entry and the distributed flag, and reports success.
C28_NotificationFailureHarmless ==
    [][\A r \in Reqs :
          (Answers(r, "dist_txn") /\ req'[r].faults.db = 0) =>
              /\ req'[r].response = "OK"
              /\ PaysEveryLine(r)]_vars

\* a distribution that answered success although a notification failed
C28_Witness ==
    \E r \in Reqs :
        /\ req[r].op = "distribute"
        /\ req[r].response = "OK"
        /\ req[r].faults.db = 0
        /\ req[r].lines # <<>>
        /\ notifier = "down"
        /\ notifications = {}
        /\ tournaments[req[r].tid].prizesDistributed

(***************************************************************************)
(* Properties of the order of the checks.                                  *)
(***************************************************************************)
\* C29: distributeTournamentPrizes reports the earliest violated of its
\* preconditions, in the order tournament exists, caller is organizer,
\* status is completed, no prior payout entries, all payees on the roster,
\* each with an answer of its own.
C29_EarliestViolationReported ==
    [][\A r \in Reqs :
          /\ (/\ req[r].pc = "idle"
              /\ req'[r].op = "distribute"
              /\ req'[r].response # "BodyInvalid") =>
                LET tid == req'[r].tid
                    actor == req'[r].actor
                IN  IF tid \notin DOMAIN tournaments
                    THEN req'[r].response = "NotFound"
                    ELSE IF tournaments[tid].organizer # actor
                    THEN req'[r].response = "NotOrganizer"
                    ELSE IF tournaments[tid].status # "completed"
                    THEN req'[r].response = "NotCompleted"
                    ELSE req'[r].pc = "dist_check"
          /\ (req[r].pc = "dist_check" /\ req'[r].pc # "dist_check") =>
                IF ExistingPrizePayouts(req[r].tid) # {}
                THEN req'[r].response = "AlreadyDistributed"
                ELSE /\ req'[r].response # "AlreadyDistributed"
                     /\ req'[r].pc = "dist_txn" =>
                          \A i \in DOMAIN req'[r].lines :
                              req'[r].lines[i].userId
                                  \in Range(req[r].snap.participants)]_vars

\* a caller who is not the organizer asked for the prizes of a tournament
\* that is not completed, and was told the former
C29_Witness ==
    \E r \in Reqs :
        /\ req[r].op = "distribute"
        /\ req[r].response = "NotOrganizer"
        /\ req[r].tid \in DOMAIN tournaments
        /\ tournaments[req[r].tid].status # "completed"
        /\ tournaments[req[r].tid].organizer # req[r].actor

(***************************************************************************)
(* Properties of the migration.                                            *)
(***************************************************************************)
\* C30: after the migration has run, a document that had any of the legacy
\* keys '1st'..'5th' has prizes.fixed.amounts with the legacy value of rank
\* k at index k-1, 0 where the key was absent, and none of the legacy keys.
C30_LegacyKeysMigrated ==
    (calc.phase = "migrated" /\ DOMAIN calc.before.legacy # {}) =>
        /\ calc.doc.hasAmounts
        /\ Len(calc.doc.amounts) = Len(RankLabels)
        /\ \A k \in DOMAIN calc.doc.amounts :
              calc.doc.amounts[k] =
                IF k \in DOMAIN calc.before.legacy
                THEN ParseFloatOrZero(calc.before.legacy[k])
                ELSE 0
        /\ DOMAIN calc.doc.legacy = {}

\* the same, for the variant alone
VariantMigratesLegacyKeys == calc.script = "variant" => C30_LegacyKeysMigrated

\* a legacy key '1st'..'5th' in prizes.fixed or in prizes.percentage
HasLegacyKeys(doc) == DOMAIN doc.legacy # {} \/ DOMAIN doc.pct.legacy # {}

RemindingTicks(tid) ==
    {r \in Reqs : req[r].op = "reminderTick" /\ tid \in req[r].due}

\* C32: overlapping reminder ticks are harmless: with no error in any tick,
\* and a second tick started while the first has not yet stored
\* fiveMinuteReminderSent, the reminder of a tournament is still asked for
\* by at most one of the ticks.
C32_OverlappingTicksRemindOnce ==
    (\A r \in Reqs : req[r].op = "reminderTick" => req[r].failed = {}) =>
        \A tid \in DOMAIN tournaments : Cardinality(RemindingTicks(tid)) <= 1

\* the ticks of either cron job that have finished
FinishedTicks ==
    {r \in Reqs : req[r].op \in {"reminderTick", "statusTick"}
                  /\ req[r].pc = "done"}

\* C33: an error raised while a tick handles one tournament does not stop
\* the tick: when the tick has finished, every tournament it had selected
\* was evaluated, and each one that was due and did not fail itself was
\* updated (status tick) or reminded and marked (reminder tick).
C33_TickErrorsIsolated ==
    \A r \in FinishedTicks :
        /\ req[r].handled = Range(req[r].found)
        /\ (req[r].due \ req[r].failed) \subseteq req[r].acted

\* a tick failed on its first tournament and went on to update or remind
\* its second
C33_Witness ==
    \E r \in FinishedTicks :
        /\ req[r].found = <<1, 2>>
        /\ req[r].failed = {1}
        /\ 2 \in req[r].acted

(***************************************************************************)
(* Properties of the prize money.                                          *)
(***************************************************************************)
\* the users on the roster of some tournament
OnSomeRoster ==
    UNION {Range(tournaments[tid].participants) : tid \in DOMAIN tournaments}

\* C34: prize money is credited only to users on the tournament's roster, by
\* either paying path: whenever a step raises a balance, the user is a
\* participant.
C34_PrizesOnlyToRoster ==
    [][\A u \in Users :
          walletBalance'[u] > walletBalance[u] => u \in OnSomeRoster]_vars

\* C35: what a payout request that was accepted, by
\* distributeTournamentPrizes or by submitTournamentResults, credits in
\* total never exceeds the total prize pool committed at the creation of
\* the tournament.
C35_PayoutWithinPool ==
    \A r \in Reqs :
        (Succeeded(r, "distribute") \/ Succeeded(r, "submit")) =>
            SumAmounts(req[r].lines)
                <= TotalPrizePool(tournaments[req[r].tid].prizes)

\* C36: the two payout computations agree: for the same prize structure
\* and the same (participant, position) assignments, with no customAmount
\* and every line priced above 0 so that distributeTournamentPrizes accepts
\* them, each participant gets from calculatePrizeDistribution what
\* distributeTournamentPrizes computes for that participant.
C36_PayoutComputationsAgree ==
    (/\ calc.phase = "compared"
     /\ \A k \in DOMAIN calc.resolved : calc.resolved[k].amount > 0) =>
        \A u \in Users :
            CreditFor(u, calc.lines) = CreditFor(u, calc.resolved)

\* the winner notifications requested by call r
NotificationsOf(r) == {n \in notifications : n.reference[1] = r}

\* C37: winner notifications are requested only for payouts that were
\* committed: a distributeTournamentPrizes call that was rolled back has
\* requested no winner notification.
C37_NotifiedOnlyIfCommitted ==
    \A r \in Reqs :
        (req[r].op = "distribute" /\ req[r].response = "Error") =>
            NotificationsOf(r) = {}

\* C38: the organizer's status change is never lost to the status engine:
\* no step of a cron tick, in flight since before the change or started
\* after it, moves a cancelled tournament to another status.
C38_CancelledStays ==
    [][\A tid \in DOMAIN tournaments :
          (/\ tournaments[tid].status = "cancelled"
           /\ tournaments'[tid].status # "cancelled") => req' = req]_vars

(***************************************************************************)
(* Properties of the wallet against the payment gateway.                   *)
(***************************************************************************)
\* the deposits of user u in the ledger
DepositsOf(u) == {e \in transactions : e.type = "deposit" /\ e.user = u}

\* C39: a deposit is credited at most once per transaction reference: over
\* any sequence of verifyDeposit calls, a balance has risen by no more than
\* the amounts of the user's deposits, each counted once.
C39_DepositCreditedOnce ==
    \A u \in Users :
        walletBalance[u]
            <= SumOver([e \in DepositsOf(u) |-> e.amount], DepositsOf(u))

\* the calls that have refunded the withdrawal with reference ref: the
\* initiateWithdrawal that created it, or a transfer.failed webhook
RefundsOf(ref) ==
    {r \in Reqs :
        /\ req[r].response = "Refunded"
        /\ \/ req[r].op = "withdraw" /\ ref = <<r, 0>>
           \/ req[r].op = "transferFailed" /\ req[r].snap.reference = ref}

\* at most one refund for each withdrawal
RefundedAtMostOnce ==
    \A e \in transactions :
        e.type = "withdrawal" => Cardinality(RefundsOf(e.reference)) <= 1

\* no transfer.failed webhook has refunded a withdrawal that it found
\* completed
CompletedNeverRefunded ==
    \A r \in Reqs :
        (req[r].op = "transferFailed" /\ req[r].response = "Refunded") =>
            req[r].snap.status # "completed"

\* C40: a withdrawal is refunded at most once and only if it failed: over
\* the gateway-error path of initiateWithdrawal and any transfer.failed
\* webhooks for the same reference the amount is added back at most once,
\* and a withdrawal whose transaction is completed is never refunded.
C40_RefundOnceIfFailed == RefundedAtMostOnce /\ CompletedNeverRefunded

====
